---------------------------- MODULE Spec2Model ----------------------------
(***************************************************************************)
(* VAULT Aegis PII sanitizer: detector, risk engine and sanitizer.         *)
(*                                                                         *)
(* Texts are sequences of one-character strings, positions are Python's    *)
(* 0-based offsets and a span is the half-open interval [start, end).      *)
(* A confidence is kept as its decimal literal in hundredths (95 for 0.95) *)
(* and converted to an IEEE-754 double where the code computes with it.    *)
(***************************************************************************)
EXTENDS Integers, Sequences, FiniteSets, TLC

VARIABLES
    detections,      \* SpecScore: the detection list the caller passes to score
    risk_score,      \* SpecScore: the PIIRiskScore returned by the last score call
    prev_score,      \* SpecScore: the PIIRiskScore of the list before its last detection was added
    block_decision,  \* <<b>> after should_block returned b, else <<>>
    input,           \* Spec: the text the caller passes to sanitize
    sanitizer_mode,  \* Spec: the mode field of the PIISanitizer
    sanitize_result, \* Spec: <<r>> after sanitize(input) returned the SanitizeResult r, else <<>>
    redetected,      \* Spec: <<ds>> after detect(r.sanitized_text) returned ds, else <<>>
    alert,           \* SpecScore: <<a>> after a to_alert call a, else <<>>
    sanitize_pc,     \* SpecRace: where the thread inside sanitize(input) stands
    sanitize_frame,  \* SpecRace: <<f>>, f the local variables of that call, once it has any
    dedup_input,     \* SpecDedup: the candidate list the caller passes to _deduplicate
    dedup_kept,      \* SpecDedup: <<ks>> after _deduplicate(dedup_input) returned ks, else <<>>
    presidio_installed,    \* SpecLoader: whether "from presidio_analyzer import AnalyzerEngine" succeeds
    _presidio_analyzer,    \* SpecLoader: the module global: <<>> for None, <<a>> for the AnalyzerEngine a
    analyzers_constructed, \* SpecLoader: how many times AnalyzerEngine() has been called
    loader_pc,             \* SpecLoader: where each thread stands in _get_presidio_analyzer
    loader_new,            \* SpecLoader: per thread, <<a>> once its AnalyzerEngine() call returned a
    loader_returned,       \* SpecLoader: per thread, <<v>> once its call returned v (<<>> is None)
    loader_after_failure,  \* SpecLoader: per thread, whether a call had returned None before its call began
    call_log,              \* SpecCalls: the calls made so far, each with its arguments and result
    unparseable,           \* SpecConstruct: the types whose pattern re.compile rejects
    init_pc,               \* SpecConstruct: where PIIDetector.__init__ stands, <<phase, loop index>>
    _compiled_patterns,    \* SpecConstruct: the keys of self._compiled_patterns
    detect_table,          \* SpecConstruct: <<ks>> once detect ran against a table with keys ks, else <<>>
    checked,               \* SpecValidators: the string given to a validator
    check_result,          \* SpecValidators: <<r>> once a validator returned for checked, else <<>>
    check_prev             \* SpecValidators: <<p>>, p the string and verdict before a digit was changed, else <<>>

vars == <<detections, risk_score, prev_score, block_decision,
          input, sanitizer_mode, sanitize_result, redetected, alert,
          sanitize_pc, sanitize_frame, dedup_input, dedup_kept,
          presidio_installed, _presidio_analyzer, analyzers_constructed,
          loader_pc, loader_new, loader_returned, loader_after_failure,
          call_log, unparseable, init_pc, _compiled_patterns, detect_table,
          checked, check_result, check_prev>>

\* the variables of the specifications other than Spec and SpecScore, which
\* these two leave as they are
race_vars == <<sanitize_pc, sanitize_frame>>

RaceIdle == sanitize_pc = "idle" /\ sanitize_frame = <<>>

dedup_vars == <<dedup_input, dedup_kept>>

DedupIdle == dedup_input = <<>> /\ dedup_kept = <<>>

loader_vars == <<presidio_installed, _presidio_analyzer, analyzers_constructed,
                 loader_pc, loader_new, loader_returned, loader_after_failure>>

\* the threads that call the lazy loader
MaxThreads == 3

LoaderThreads == 1..MaxThreads

\* the module as loaded: _presidio_analyzer = None, no call made
LoaderFresh ==
    /\ _presidio_analyzer = <<>>
    /\ analyzers_constructed = 0
    /\ loader_pc = [t \in LoaderThreads |-> "idle"]
    /\ loader_new = [t \in LoaderThreads |-> <<>>]
    /\ loader_returned = [t \in LoaderThreads |-> <<>>]
    /\ loader_after_failure = [t \in LoaderThreads |-> FALSE]

LoaderIdle == presidio_installed = FALSE /\ LoaderFresh

calls_vars == <<call_log>>

CallsIdle == call_log = <<>>

construct_vars == <<unparseable, init_pc, _compiled_patterns, detect_table>>

ConstructIdle ==
    /\ unparseable = {}
    /\ init_pc = <<"idle", 0>>
    /\ _compiled_patterns = {}
    /\ detect_table = <<>>

check_vars == <<checked, check_result, check_prev>>

CheckIdle == checked = <<>> /\ check_result = <<>> /\ check_prev = <<>>

new_vars == <<calls_vars, construct_vars, check_vars>>

NewIdle == CallsIdle /\ ConstructIdle /\ CheckIdle

aux_vars == <<race_vars, dedup_vars, loader_vars, new_vars>>

AuxIdle == RaceIdle /\ DedupIdle /\ LoaderIdle /\ NewIdle

(***************************************************************************)
(* Bounds                                                                  *)
(***************************************************************************)
MaxDetections == 6

\* the longest input text, in fragments
MaxFrags == 2

\* the longest candidate list passed to _deduplicate
MaxCandidates == 3

(***************************************************************************)
(* config.py: risk levels, registry, scoring constants                     *)
(***************************************************************************)
RiskLevel == {"Low", "Medium", "High", "Critical"}

SanitizeMode == {"detect_only", "mask", "redact"}

PII_TYPES ==
    [t \in {"EMAIL", "PHONE", "SSN", "AADHAAR", "PASSPORT", "DRIVERS_LICENSE",
            "DOB", "PERSON_NAME", "CREDIT_CARD", "CVV", "BANK_ACCOUNT", "IFSC",
            "IBAN", "API_KEY", "JWT_TOKEN", "PRIVATE_KEY", "PASSWORD",
            "ACCESS_TOKEN", "IP_ADDRESS", "PHYSICAL_ADDRESS", "EMPLOYEE_ID",
            "DB_URL"} |->
      CASE t = "EMAIL" ->
             [label |-> "Email Address", category |-> "personal", risk |-> "High", confidence |-> 95,
              redact_tag |-> <<"[","R","E","D","A","C","T","E","D","_","E","M","A","I","L","]">>]
        [] t = "PHONE" ->
             [label |-> "Phone Number", category |-> "personal", risk |-> "High", confidence |-> 85,
              redact_tag |-> <<"[","R","E","D","A","C","T","E","D","_","P","H","O","N","E","]">>]
        [] t = "SSN" ->
             [label |-> "Social Security Number", category |-> "personal", risk |-> "Critical", confidence |-> 92,
              redact_tag |-> <<"[","R","E","D","A","C","T","E","D","_","S","S","N","]">>]
        [] t = "AADHAAR" ->
             [label |-> "Aadhaar Number", category |-> "personal", risk |-> "Critical", confidence |-> 90,
              redact_tag |-> <<"[","R","E","D","A","C","T","E","D","_","A","A","D","H","A","A","R","]">>]
        [] t = "PASSPORT" ->
             [label |-> "Passport Number", category |-> "personal", risk |-> "High", confidence |-> 80,
              redact_tag |-> <<"[","R","E","D","A","C","T","E","D","_","P","A","S","S","P","O","R","T","]">>]
        [] t = "DRIVERS_LICENSE" ->
             [label |-> "Driver's License Number", category |-> "personal", risk |-> "High", confidence |-> 75,
              redact_tag |-> <<"[","R","E","D","A","C","T","E","D","_","D","L","]">>]
        [] t = "DOB" ->
             [label |-> "Date of Birth", category |-> "personal", risk |-> "Medium", confidence |-> 70,
              redact_tag |-> <<"[","R","E","D","A","C","T","E","D","_","D","O","B","]">>]
        [] t = "PERSON_NAME" ->
             [label |-> "Person Name", category |-> "personal", risk |-> "Medium", confidence |-> 65,
              redact_tag |-> <<"[","R","E","D","A","C","T","E","D","_","N","A","M","E","]">>]
        [] t = "CREDIT_CARD" ->
             [label |-> "Credit Card Number", category |-> "financial", risk |-> "Critical", confidence |-> 98,
              redact_tag |-> <<"[","R","E","D","A","C","T","E","D","_","C","R","E","D","I","T","_","C","A","R","D","]">>]
        [] t = "CVV" ->
             [label |-> "CVV Code", category |-> "financial", risk |-> "Critical", confidence |-> 70,
              redact_tag |-> <<"[","R","E","D","A","C","T","E","D","_","C","V","V","]">>]
        [] t = "BANK_ACCOUNT" ->
             [label |-> "Bank Account Number", category |-> "financial", risk |-> "High", confidence |-> 75,
              redact_tag |-> <<"[","R","E","D","A","C","T","E","D","_","B","A","N","K","_","A","C","C","T","]">>]
        [] t = "IFSC" ->
             [label |-> "IFSC Code", category |-> "financial", risk |-> "Medium", confidence |-> 90,
              redact_tag |-> <<"[","R","E","D","A","C","T","E","D","_","I","F","S","C","]">>]
        [] t = "IBAN" ->
             [label |-> "IBAN", category |-> "financial", risk |-> "High", confidence |-> 88,
              redact_tag |-> <<"[","R","E","D","A","C","T","E","D","_","I","B","A","N","]">>]
        [] t = "API_KEY" ->
             [label |-> "API Key", category |-> "auth_secret", risk |-> "Critical", confidence |-> 90,
              redact_tag |-> <<"[","R","E","D","A","C","T","E","D","_","A","P","I","_","K","E","Y","]">>]
        [] t = "JWT_TOKEN" ->
             [label |-> "JWT Token", category |-> "auth_secret", risk |-> "Critical", confidence |-> 95,
              redact_tag |-> <<"[","R","E","D","A","C","T","E","D","_","J","W","T","]">>]
        [] t = "PRIVATE_KEY" ->
             [label |-> "Private Key", category |-> "auth_secret", risk |-> "Critical", confidence |-> 97,
              redact_tag |-> <<"[","R","E","D","A","C","T","E","D","_","P","R","I","V","A","T","E","_","K","E","Y","]">>]
        [] t = "PASSWORD" ->
             [label |-> "Password", category |-> "auth_secret", risk |-> "Critical", confidence |-> 80,
              redact_tag |-> <<"[","R","E","D","A","C","T","E","D","_","P","A","S","S","W","O","R","D","]">>]
        [] t = "ACCESS_TOKEN" ->
             [label |-> "Access Token", category |-> "auth_secret", risk |-> "Critical", confidence |-> 88,
              redact_tag |-> <<"[","R","E","D","A","C","T","E","D","_","T","O","K","E","N","]">>]
        [] t = "IP_ADDRESS" ->
             [label |-> "IP Address", category |-> "confidential", risk |-> "Medium", confidence |-> 85,
              redact_tag |-> <<"[","R","E","D","A","C","T","E","D","_","I","P","]">>]
        [] t = "PHYSICAL_ADDRESS" ->
             [label |-> "Physical Address", category |-> "confidential", risk |-> "High", confidence |-> 60,
              redact_tag |-> <<"[","R","E","D","A","C","T","E","D","_","A","D","D","R","E","S","S","]">>]
        [] t = "EMPLOYEE_ID" ->
             [label |-> "Employee ID", category |-> "confidential", risk |-> "Medium", confidence |-> 70,
              redact_tag |-> <<"[","R","E","D","A","C","T","E","D","_","E","M","P","_","I","D","]">>]
        [] t = "DB_URL" ->
             [label |-> "Database URL", category |-> "confidential", risk |-> "Critical", confidence |-> 92,
              redact_tag |-> <<"[","R","E","D","A","C","T","E","D","_","D","B","_","U","R","L","]">>]]

RISK_SCORE_MAP ==
    [l \in RiskLevel |->
      CASE l = "Low" -> 25 [] l = "Medium" -> 50 [] l = "High" -> 75 [] l = "Critical" -> 95]

BLOCK_THRESHOLD == 80

(***************************************************************************)
(* IEEE-754 binary64 arithmetic (Python float) on the values the risk      *)
(* engine computes: positive numbers in [2^-7, 2^7).  A number is kept as  *)
(* the integer N of units 2^-59, split in three limbs of 22 bits           *)
(* <<hi, mid, lo>>, N = hi*2^44 + mid*2^22 + lo.  Every double in that     *)
(* range is a whole number of units, and every operation below computes    *)
(* the exact result and then rounds it to 53 significant bits, ties to     *)
(* even, as the hardware does.                                             *)
(***************************************************************************)
Limb == 4194304

RECURSIVE BitLen(_)
BitLen(x) == IF x = 0 THEN 0 ELSE 1 + BitLen(x \div 2)

RECURSIVE Pow2(_)
Pow2(n) == IF n = 0 THEN 1 ELSE 2 * Pow2(n - 1)

FxAdd(a, b) ==
    LET l == a[3] + b[3]
        m == a[2] + b[2] + (l \div Limb)
        h == a[1] + b[1] + (m \div Limb)
    IN  <<h, m % Limb, l % Limb>>

FxMulSmall(a, k) ==
    LET l == a[3] * k
        m == a[2] * k + (l \div Limb)
        h == a[1] * k + (m \div Limb)
    IN  <<h, m % Limb, l % Limb>>

\* exact quotient floor(a / n) and remainder, for a small positive integer n
FxDivSmall(a, n) ==
    LET h  == a[1] \div n
        r1 == a[1] % n
        m  == (r1 * Limb + a[2]) \div n
        r2 == (r1 * Limb + a[2]) % n
        l  == (r2 * Limb + a[3]) \div n
        r3 == (r2 * Limb + a[3]) % n
    IN  [q |-> <<h, m, l>>, r |-> r3]

\* the double nearest to the exact value (a + r/n) units, ties to even:
\* a number with its leading bit at position p keeps the 53 bits p .. p-52
FxRound(a, r, n) ==
    LET g    == BitLen(a[1]) - 9
        G    == Pow2(g)
        rem  == a[3] % G
        kept == <<a[1], a[2], a[3] - rem>>
        t    == (rem * n + r) * 2
        full == G * n
        odd  == ((a[3] \div G) % 2) = 1
        up   == t > full \/ (t = full /\ odd)
    IN  IF up THEN FxAdd(kept, <<0, 0, G>>) ELSE kept

\* the float literal k/100 (a registry confidence written with two decimals)
FloatOfHundredths(k) ==
    LET d == FxDivSmall(FxMulSmall(<<Pow2(15), 0, 0>>, k), 100)
    IN  FxRound(d.q, d.r, 100)

FloatAdd(x, y) == FxRound(FxAdd(x, y), 0, 1)

FloatDivInt(x, n) == LET d == FxDivSmall(x, n) IN FxRound(d.q, d.r, n)

IntMulFloat(k, x) == FxRound(FxMulSmall(x, k), 0, 1)

\* int(x): truncation toward zero of a positive float
\* variant: int() replaced by rounding to the nearest integer
IntOfFloat_rounding(x) == (x[1] + Pow2(14)) \div Pow2(15)

IntOfFloat(x) == x[1] \div Pow2(15)

Min(a, b) == IF a < b THEN a ELSE b

Max(a, b) == IF a > b THEN a ELSE b

(***************************************************************************)
(* Characters and Python's re: the subset of the regular-expression        *)
(* language that PATTERNS and the validators use.  A compiled pattern is a *)
(* syntax tree; re_run is the backtracking matcher (first alternative      *)
(* first, greedy repeats longest first, lazy repeats shortest first), so   *)
(* the match it returns at a position is the one re returns.               *)
(***************************************************************************)
Digit == {"0", "1", "2", "3", "4", "5", "6", "7", "8", "9"}

UpperSeq == <<"A","B","C","D","E","F","G","H","I","J","K","L","M",
              "N","O","P","Q","R","S","T","U","V","W","X","Y","Z">>

LowerSeq == <<"a","b","c","d","e","f","g","h","i","j","k","l","m",
              "n","o","p","q","r","s","t","u","v","w","x","y","z">>

Upper == {UpperSeq[i] : i \in 1..26}

Lower == {LowerSeq[i] : i \in 1..26}

\* \s
Space == {" ", "\t", "\n", "\r", "\f"}

\* \w
WordChar == Upper \cup Lower \cup Digit \cup {"_"}

\* the characters an IGNORECASE literal c matches
BothCases(c) ==
    IF c \in Upper THEN {c, LowerSeq[CHOOSE i \in 1..26 : UpperSeq[i] = c]}
    ELSE IF c \in Lower THEN {c, UpperSeq[CHOOSE i \in 1..26 : LowerSeq[i] = c]}
    ELSE {c}

\* syntax trees
Chr(cs) == [k |-> "set", cs |-> cs]

NotChr(cs) == [k |-> "nset", cs |-> cs]

WordB == [k |-> "wb"]

AtEnd == [k |-> "end"]

Cat(xs) == [k |-> "cat", xs |-> xs]

Alt(xs) == [k |-> "alt", xs |-> xs]

\* hi = -1: no upper limit
Rep(x, lo, hi) == [k |-> "rep", x |-> x, lo |-> lo, hi |-> hi, greedy |-> TRUE]

RepLazy(x, lo, hi) == [k |-> "rep", x |-> x, lo |-> lo, hi |-> hi, greedy |-> FALSE]

Grp(x) == [k |-> "grp", x |-> x]

\* a literal string under IGNORECASE: one set of characters per position
LitI(cs) == [k |-> "lit", css |-> [i \in 1..Len(cs) |-> BothCases(cs[i])]]

\* a literal string, case-sensitive
Lit(cs) == [k |-> "lit", css |-> [i \in 1..Len(cs) |-> {cs[i]}]]

NoMatch == [ok |-> FALSE, end |-> -1, g |-> <<>>]

\* \b at offset i: exactly one of the characters before and after is a word character
at_boundary(s, i) ==
    (i >= 1 /\ s[i] \in WordChar) # (i < Len(s) /\ s[i + 1] \in WordChar)

\* whether the single-character node x accepts character c
accepts(x, c) == IF x.k = "set" THEN c \in x.cs ELSE c \notin x.cs

\* how many characters from offset i on, at most limit, the node x accepts in a row
run_length(x, s, i, limit) ==
    IF \A j \in 1..limit : accepts(x, s[i + j]) THEN limit
    ELSE (CHOOSE j \in 1..limit :
             ~accepts(x, s[i + j]) /\ \A j2 \in 1..(j - 1) : accepts(x, s[i + j2])) - 1

\* of the outcomes rs = {<<priority, outcome>>}, the successful one of least priority number
first_ok(rs) ==
    LET good == {r \in rs : r[2].ok}
    IN  IF good = {} THEN NoMatch
        ELSE (CHOOSE r \in good : \A r2 \in good : r[1] <= r2[1])[2]

\* Match the pending nodes k, in order, from offset i of s; g is the span of
\* capture group 1 so far (<<>> while it has not taken part).  The outcome is
\* the one backtracking reaches first: alternatives in order, a greedy repeat
\* with the largest count whose continuation matches, a lazy one with the
\* smallest.
RECURSIVE re_run(_, _, _, _)
re_run(k, s, i, g) ==
    IF Len(k) = 0 THEN [ok |-> TRUE, end |-> i, g |-> g]
    ELSE CASE k[1].k \in {"set", "nset"} ->
                IF i < Len(s) /\ accepts(k[1], s[i + 1])
                THEN re_run(Tail(k), s, i + 1, g) ELSE NoMatch
           [] k[1].k = "lit" ->
                IF /\ i + Len(k[1].css) <= Len(s)
                   /\ \A j \in 1..Len(k[1].css) : s[i + j] \in k[1].css[j]
                THEN re_run(Tail(k), s, i + Len(k[1].css), g) ELSE NoMatch
           [] k[1].k = "wb" ->
                IF at_boundary(s, i) THEN re_run(Tail(k), s, i, g) ELSE NoMatch
           [] k[1].k = "end" ->
                IF i = Len(s) \/ (i = Len(s) - 1 /\ s[Len(s)] = "\n")
                THEN re_run(Tail(k), s, i, g) ELSE NoMatch
           [] k[1].k = "cat" -> re_run(k[1].xs \o Tail(k), s, i, g)
           [] k[1].k = "alt" ->
                first_ok({<<a, re_run(<<k[1].xs[a]>> \o Tail(k), s, i, g)>> :
                              a \in 1..Len(k[1].xs)})
           [] k[1].k = "rep" /\ k[1].x.k \in {"set", "nset"} ->
                \* a repeated single character: every count from lo up to the
                \* length of the run is a candidate
                LET n     == k[1]
                    avail == Len(s) - i
                    run   == run_length(n.x, s, i, IF n.hi = -1 THEN avail ELSE Min(n.hi, avail))
                IN  first_ok({<<IF n.greedy THEN run - c ELSE c, re_run(Tail(k), s, i + c, g)>> :
                                  c \in n.lo..run})
           [] k[1].k = "rep" /\ k[1].x.k \notin {"set", "nset"} ->
                \* one more iteration, or none
                LET n     == k[1]
                    again == [n EXCEPT !.lo = IF n.lo > 0 THEN n.lo - 1 ELSE 0,
                                       !.hi = IF n.hi > 0 THEN n.hi - 1 ELSE n.hi]
                    more  == IF n.hi = 0 THEN NoMatch
                             ELSE re_run(<<n.x, again>> \o Tail(k), s, i, g)
                IN  IF n.lo > 0 THEN more
                    ELSE IF n.greedy
                         THEN IF more.ok THEN more ELSE re_run(Tail(k), s, i, g)
                         ELSE first_ok({<<1, re_run(Tail(k), s, i, g)>>, <<2, more>>})
           [] k[1].k = "grp" ->
                re_run(<<k[1].x, [k |-> "grpend", start |-> i]>> \o Tail(k), s, i, g)
           [] k[1].k = "grpend" -> re_run(Tail(k), s, i, <<k[1].start, i>>)

\* the match of pattern that starts at each offset of s
matches_at(pattern, s) == {<<p, re_run(<<pattern>>, s, p, <<>>)>> : p \in 0..Len(s)}

\* the loop of finditer: the leftmost match that starts at pos or later, then
\* the search resumes where that match ended
RECURSIVE finditer_from(_, _)
finditer_from(found, pos) ==
    LET later == {r \in found : r[1] >= pos}
    IN  IF later = {} THEN <<>>
        ELSE LET r == CHOOSE r \in later : \A r2 \in later : r[1] <= r2[1]
             IN  <<[start |-> r[1], end |-> r[2].end, g |-> r[2].g]>>
                 \o finditer_from(found, IF r[2].end > r[1] THEN r[2].end ELSE r[1] + 1)

\* pattern.finditer(s)
finditer(pattern, s) ==
    finditer_from({r \in matches_at(pattern, s) : r[2].ok}, 0)

\* re.match(pattern, s): a match at offset 0
re_match(pattern, s) == re_run(<<pattern>>, s, 0, <<>>).ok

\* s[a:b] for 0 <= a <= b <= len(s)
Slice(s, a, b) == SubSeq(s, a + 1, b)

(***************************************************************************)
(* config.py: PATTERNS, as re.compile(p, IGNORECASE | MULTILINE) parses    *)
(* them: letters match in both cases, and alternatives that share a prefix *)
(* are factored (password|passwd|pwd is p(?:assword|asswd|wd)).            *)
(***************************************************************************)
PATTERNS ==
    [t \in {"PRIVATE_KEY", "JWT_TOKEN", "API_KEY", "ACCESS_TOKEN",
            "PASSWORD", "DB_URL", "CREDIT_CARD", "IBAN", "IFSC", "CVV",
            "BANK_ACCOUNT", "EMAIL", "SSN", "AADHAAR", "PHONE",
            "PASSPORT", "DRIVERS_LICENSE", "DOB", "IP_ADDRESS",
            "EMPLOYEE_ID"} |->
      CASE t = "PRIVATE_KEY" ->
             Cat(<<LitI(<<"-","-","-","-","-","B","E","G","I","N"," ">>),
                   Rep(Alt(<<LitI(<<"R","S","A"," ">>), LitI(<<"E","C"," ">>), LitI(<<"D","S","A"," ">>), LitI(<<"O","P","E","N","S","S","H"," ">>)>>), 0, 1),
                   LitI(<<"P","R","I","V","A","T","E"," ","K","E","Y","-","-","-","-","-">>),
                   RepLazy(NotChr({}), 1, -1),
                   LitI(<<"-","-","-","-","-","E","N","D"," ">>),
                   Rep(Alt(<<LitI(<<"R","S","A"," ">>), LitI(<<"E","C"," ">>), LitI(<<"D","S","A"," ">>), LitI(<<"O","P","E","N","S","S","H"," ">>)>>), 0, 1),
                   LitI(<<"P","R","I","V","A","T","E"," ","K","E","Y","-","-","-","-","-">>)>>)
        [] t = "JWT_TOKEN" ->
             Cat(<<WordB,
                   LitI(<<"e","y","J">>),
                   Rep(Chr(Upper \cup Lower \cup Digit \cup {"_", "-"}), 10, -1),
                   LitI(<<".">>),
                   Rep(Chr(Upper \cup Lower \cup Digit \cup {"_", "-"}), 10, -1),
                   LitI(<<".">>),
                   Rep(Chr(Upper \cup Lower \cup Digit \cup {"_", "-"}), 10, -1),
                   WordB>>)
        [] t = "API_KEY" ->
             Cat(<<Alt(<<Cat(<<LitI(<<"a","p","i">>), Rep(Chr({"_", "-", " "}), 0, 1), LitI(<<"k","e","y">>)>>), Cat(<<LitI(<<"s","e","c","r","e","t">>), Rep(Chr({"_", "-", " "}), 0, 1), LitI(<<"k","e","y">>)>>), Cat(<<LitI(<<"a","c","c","e","s","s">>), Rep(Chr({"_", "-", " "}), 0, 1), LitI(<<"k","e","y">>)>>)>>),
                   Rep(Chr(Space), 0, -1),
                   Chr({":", "="}),
                   Rep(Chr(Space), 0, -1),
                   Rep(Chr({"'", "\""}), 0, 1),
                   Grp(Rep(Chr(Upper \cup Lower \cup Digit \cup {"_", "-"}), 16, -1)),
                   Rep(Chr({"'", "\""}), 0, 1)>>)
        [] t = "ACCESS_TOKEN" ->
             Cat(<<Alt(<<LitI(<<"b","e","a","r","e","r">>), LitI(<<"t","o","k","e","n">>), LitI(<<"a","c","c","e","s","s","_","t","o","k","e","n">>), LitI(<<"a","u","t","h","_","t","o","k","e","n">>)>>),
                   Rep(Chr(Space), 0, -1),
                   Rep(Chr({":", "="}), 0, 1),
                   Rep(Chr(Space), 0, -1),
                   Rep(Chr({"'", "\""}), 0, 1),
                   Grp(Rep(Chr(Upper \cup Lower \cup Digit \cup {"_", "-", "."}), 20, -1)),
                   Rep(Chr({"'", "\""}), 0, 1)>>)
        [] t = "PASSWORD" ->
             Cat(<<LitI(<<"p">>),
                   Alt(<<LitI(<<"a","s","s","w","o","r","d">>), LitI(<<"a","s","s","w","d">>), LitI(<<"w","d">>)>>),
                   Rep(Chr(Space), 0, -1),
                   Chr({":", "="}),
                   Rep(Chr(Space), 0, -1),
                   Rep(Chr({"'", "\""}), 0, 1),
                   Rep(NotChr(Space), 4, -1),
                   Rep(Chr({"'", "\""}), 0, 1)>>)
        [] t = "DB_URL" ->
             Cat(<<Alt(<<LitI(<<"m","o","n","g","o","d","b">>), Cat(<<LitI(<<"p","o","s","t","g","r","e","s">>), Rep(LitI(<<"q","l">>), 0, 1)>>), LitI(<<"m","y","s","q","l">>), LitI(<<"r","e","d","i","s">>), LitI(<<"s","q","l","i","t","e">>), LitI(<<"m","s","s","q","l">>)>>),
                   LitI(<<":","/","/">>),
                   Rep(NotChr(Space), 1, -1)>>)
        [] t = "CREDIT_CARD" ->
             Cat(<<WordB,
                   Alt(<<Cat(<<LitI(<<"4">>), Rep(Chr(Digit), 3, 3)>>), Cat(<<LitI(<<"5">>), Chr({"1", "2", "3", "4", "5"}), Rep(Chr(Digit), 2, 2)>>), Cat(<<LitI(<<"3">>), Chr({"4", "7"}), Chr(Digit)>>), Cat(<<LitI(<<"6">>), Alt(<<LitI(<<"0","1","1">>), Cat(<<LitI(<<"5">>), Rep(Chr(Digit), 2, 2)>>)>>)>>)>>),
                   Rep(Chr(Space \cup {"-"}), 0, 1),
                   Rep(Chr(Digit), 4, 4),
                   Rep(Chr(Space \cup {"-"}), 0, 1),
                   Rep(Chr(Digit), 4, 4),
                   Rep(Chr(Space \cup {"-"}), 0, 1),
                   Rep(Chr(Digit), 1, 4),
                   WordB>>)
        [] t = "IBAN" ->
             Cat(<<WordB,
                   Rep(Chr(Upper \cup Lower), 2, 2),
                   Rep(Chr(Digit), 2, 2),
                   Rep(Chr(Space), 0, 1),
                   Rep(Chr(Upper \cup Lower \cup Digit), 4, 4),
                   Rep(Chr(Space), 0, 1),
                   Rep(Cat(<<Rep(Chr(Upper \cup Lower \cup Digit), 4, 4), Rep(Chr(Space), 0, 1)>>), 2, 7),
                   Rep(Chr(Upper \cup Lower \cup Digit), 1, 4),
                   WordB>>)
        [] t = "IFSC" ->
             Cat(<<WordB,
                   Rep(Chr(Upper \cup Lower), 4, 4),
                   LitI(<<"0">>),
                   Rep(Chr(Upper \cup Lower \cup Digit), 6, 6),
                   WordB>>)
        [] t = "CVV" ->
             Cat(<<WordB,
                   LitI(<<"c","v","v">>),
                   Rep(Chr(Space), 0, -1),
                   Rep(Chr({":", "="}), 0, 1),
                   Rep(Chr(Space), 0, -1),
                   Rep(Chr(Digit), 3, 4),
                   WordB>>)
        [] t = "BANK_ACCOUNT" ->
             Cat(<<LitI(<<"a","c","c">>),
                   Alt(<<LitI(<<"o","u","n","t">>), LitI(<<"t">>)>>),
                   Rep(Chr(Space), 0, -1),
                   Rep(Alt(<<LitI(<<"n","o">>), LitI(<<"n","u","m","b","e","r">>), LitI(<<"#">>)>>), 0, 1),
                   Rep(Chr(Space), 0, -1),
                   Rep(Chr({":", "="}), 0, 1),
                   Rep(Chr(Space), 0, -1),
                   Rep(Chr(Digit), 9, 18)>>)
        [] t = "EMAIL" ->
             Cat(<<WordB,
                   Rep(Chr(Upper \cup Lower \cup Digit \cup {".", "_", "%", "+", "-"}), 1, -1),
                   LitI(<<"@">>),
                   Rep(Chr(Upper \cup Lower \cup Digit \cup {".", "-"}), 1, -1),
                   LitI(<<".">>),
                   Rep(Chr(Upper \cup Lower \cup {"|"}), 2, -1),
                   WordB>>)
        [] t = "SSN" ->
             Cat(<<WordB,
                   Rep(Chr(Digit), 3, 3),
                   Rep(Chr(Space \cup {"-"}), 0, 1),
                   Rep(Chr(Digit), 2, 2),
                   Rep(Chr(Space \cup {"-"}), 0, 1),
                   Rep(Chr(Digit), 4, 4),
                   WordB>>)
        [] t = "AADHAAR" ->
             Cat(<<WordB,
                   Rep(Chr(Digit), 4, 4),
                   Rep(Chr(Space \cup {"-"}), 0, 1),
                   Rep(Chr(Digit), 4, 4),
                   Rep(Chr(Space \cup {"-"}), 0, 1),
                   Rep(Chr(Digit), 4, 4),
                   WordB>>)
        [] t = "PHONE" ->
             Cat(<<Rep(Cat(<<Rep(LitI(<<"+">>), 0, 1), Rep(Chr(Digit), 1, 3), Rep(Chr(Space \cup {"-"}), 0, 1)>>), 0, 1),
                   Rep(Cat(<<Rep(LitI(<<"(">>), 0, 1), Rep(Chr(Digit), 2, 4), Rep(LitI(<<")">>), 0, 1), Rep(Chr(Space \cup {"-"}), 0, 1)>>), 0, 1),
                   Rep(Chr(Digit), 3, 4),
                   Rep(Chr(Space \cup {"-"}), 0, 1),
                   Rep(Chr(Digit), 3, 4),
                   WordB>>)
        [] t = "PASSPORT" ->
             Cat(<<WordB,
                   Rep(Chr(Upper \cup Lower), 1, 1),
                   Rep(Chr(Digit), 7, 7),
                   WordB>>)
        [] t = "DRIVERS_LICENSE" ->
             Cat(<<WordB,
                   LitI(<<"D">>),
                   Alt(<<LitI(<<"L">>), LitI(<<".","L",".">>)>>),
                   Rep(Chr(Space \cup {"-"}), 0, 1),
                   Rep(Chr(Upper \cup Lower \cup Digit), 5, 15),
                   WordB>>)
        [] t = "DOB" ->
             Cat(<<WordB,
                   Alt(<<Cat(<<Rep(Chr(Digit), 2, 2), Chr({"/", "-"}), Rep(Chr(Digit), 2, 2), Chr({"/", "-"}), Rep(Chr(Digit), 4, 4)>>), Cat(<<Rep(Chr(Digit), 4, 4), Chr({"/", "-"}), Rep(Chr(Digit), 2, 2), Chr({"/", "-"}), Rep(Chr(Digit), 2, 2)>>)>>),
                   WordB>>)
        [] t = "IP_ADDRESS" ->
             Cat(<<WordB,
                   Rep(Cat(<<Rep(Chr(Digit), 1, 3), LitI(<<".">>)>>), 3, 3),
                   Rep(Chr(Digit), 1, 3),
                   WordB>>)
        [] t = "EMPLOYEE_ID" ->
             Cat(<<WordB,
                   LitI(<<"e","m","p">>),
                   Alt(<<Cat(<<>>), LitI(<<"l","o","y","e","e">>)>>),
                   Rep(Chr(Space), 0, -1),
                   Rep(Alt(<<LitI(<<"i","d">>), LitI(<<"#">>), LitI(<<"n","o">>)>>), 0, 1),
                   Rep(Chr(Space), 0, -1),
                   Rep(Chr({":", "="}), 0, 1),
                   Rep(Chr(Space), 0, -1),
                   Rep(Chr(Upper \cup Lower \cup Digit), 4, 12),
                   WordB>>)
    ]

DETECTION_ORDER ==
    <<"PRIVATE_KEY", "JWT_TOKEN", "API_KEY", "ACCESS_TOKEN", "PASSWORD",
      "DB_URL",
      "CREDIT_CARD", "IBAN", "IFSC", "CVV", "BANK_ACCOUNT",
      "EMAIL", "SSN", "AADHAAR", "PHONE", "PASSPORT",
      "DRIVERS_LICENSE", "DOB",
      "IP_ADDRESS", "EMPLOYEE_ID">>

(***************************************************************************)
(* Python string helpers                                                   *)
(***************************************************************************)
\* re.sub(r"[\s\-]", "", value)
strip_separators(value) == SelectSeq(value, LAMBDA c : c \notin Space \cup {"-"})

\* str.isdigit
isdigit(s) == Len(s) > 0 /\ \A i \in 1..Len(s) : s[i] \in Digit

DigitSeq == <<"0", "1", "2", "3", "4", "5", "6", "7", "8", "9">>

int_of_digit(c) == (CHOOSE i \in 1..10 : DigitSeq[i] = c) - 1

\* int(s) of a string of decimal digits
RECURSIVE int_of(_)
int_of(s) ==
    IF Len(s) = 0 THEN 0
    ELSE 10 * int_of(SubSeq(s, 1, Len(s) - 1)) + int_of_digit(s[Len(s)])

\* s[:n]
Prefix(s, n) == SubSeq(s, 1, Min(n, Len(s)))

\* s[-4:]
Last4(s) == SubSeq(s, Max(Len(s) - 3, 1), Len(s))

\* whether sep occurs in s at 0-based offset i
occurs_at(s, sep, i) ==
    i + Len(sep) <= Len(s) /\ \A j \in 1..Len(sep) : s[i + j] = sep[j]

\* s.find(sep, i): the first offset from i on where sep occurs, or -1
find_from(s, sep, i) ==
    LET at == {p \in i..(Len(s) - Len(sep)) : occurs_at(s, sep, p)}
    IN  IF at = {} THEN -1 ELSE CHOOSE p \in at : \A p2 \in at : p <= p2

\* s.split(sep) for a non-empty separator
RECURSIVE split(_, _)
split(s, sep) ==
    LET i == find_from(s, sep, 0)
    IN  IF i = -1 THEN <<s>>
        ELSE <<Slice(s, 0, i)>> \o split(Slice(s, i + Len(sep), Len(s)), sep)

\* "*" * n
Stars(n) == [i \in 1..Max(n, 0) |-> "*"]

\* not text or not text.strip()
is_blank(text) == \A i \in 1..Len(text) : text[i] \in Space

(***************************************************************************)
(* validators.py                                                           *)
(***************************************************************************)
\* the loop of luhn_check over the reversed digits, i the 0-based index
RECURSIVE luhn_total(_, _)
luhn_total(reverse, i) ==
    IF i >= Len(reverse) THEN 0
    ELSE LET d  == int_of_digit(reverse[i + 1])
             d2 == IF i % 2 = 1 THEN (IF d * 2 > 9 THEN d * 2 - 9 ELSE d * 2) ELSE d
         IN  d2 + luhn_total(reverse, i + 1)

Reverse(s) == [i \in 1..Len(s) |-> s[Len(s) + 1 - i]]

\* variant: no upper limit on the number of digits
luhn_check_unbounded(number) ==
    LET digits == strip_separators(number)
    IN  IF ~isdigit(digits) \/ Len(digits) < 13 THEN FALSE
        ELSE luhn_total(Reverse(digits), 0) % 10 = 0

luhn_check(number) ==
    LET digits == strip_separators(number)
    IN  IF ~isdigit(digits) \/ Len(digits) < 13 \/ Len(digits) > 19 THEN FALSE
        ELSE luhn_total(Reverse(digits), 0) % 10 = 0

_VERHOEFF_D ==
    <<<<0, 1, 2, 3, 4, 5, 6, 7, 8, 9>>,
      <<1, 2, 3, 4, 0, 6, 7, 8, 9, 5>>,
      <<2, 3, 4, 0, 1, 7, 8, 9, 5, 6>>,
      <<3, 4, 0, 1, 2, 8, 9, 5, 6, 7>>,
      <<4, 0, 1, 2, 3, 9, 5, 6, 7, 8>>,
      <<5, 9, 8, 7, 6, 0, 4, 3, 2, 1>>,
      <<6, 5, 9, 8, 7, 1, 0, 4, 3, 2>>,
      <<7, 6, 5, 9, 8, 2, 1, 0, 4, 3>>,
      <<8, 7, 6, 5, 9, 3, 2, 1, 0, 4>>,
      <<9, 8, 7, 6, 5, 4, 3, 2, 1, 0>>>>

\* variant: the first row maps every digit to 0
_VERHOEFF_P_flat_row ==
    <<<<0, 0, 0, 0, 0, 0, 0, 0, 0, 0>>,
      <<1, 5, 7, 6, 2, 8, 3, 0, 9, 4>>,
      <<5, 8, 0, 3, 7, 9, 6, 1, 4, 2>>,
      <<8, 9, 1, 6, 0, 4, 3, 5, 2, 7>>,
      <<9, 4, 5, 3, 1, 2, 6, 8, 7, 0>>,
      <<4, 2, 8, 6, 5, 7, 3, 9, 0, 1>>,
      <<2, 7, 9, 3, 8, 0, 6, 4, 1, 5>>,
      <<7, 0, 4, 6, 9, 1, 3, 2, 5, 8>>>>

_VERHOEFF_P ==
    <<<<0, 1, 2, 3, 4, 5, 6, 7, 8, 9>>,
      <<1, 5, 7, 6, 2, 8, 3, 0, 9, 4>>,
      <<5, 8, 0, 3, 7, 9, 6, 1, 4, 2>>,
      <<8, 9, 1, 6, 0, 4, 3, 5, 2, 7>>,
      <<9, 4, 5, 3, 1, 2, 6, 8, 7, 0>>,
      <<4, 2, 8, 6, 5, 7, 3, 9, 0, 1>>,
      <<2, 7, 9, 3, 8, 0, 6, 4, 1, 5>>,
      <<7, 0, 4, 6, 9, 1, 3, 2, 5, 8>>>>

\* the loop of verhoeff_check over the reversed digits, i the 0-based index
RECURSIVE verhoeff_fold(_, _, _)
verhoeff_fold(reverse, i, c) ==
    IF i >= Len(reverse) THEN c
    ELSE verhoeff_fold(reverse, i + 1,
             _VERHOEFF_D[c + 1][_VERHOEFF_P[(i % 8) + 1][int_of_digit(reverse[i + 1]) + 1] + 1])

verhoeff_check(number) ==
    LET digits == strip_separators(number)
    IN  IF ~isdigit(digits) \/ Len(digits) # 12 THEN FALSE
        ELSE verhoeff_fold(Reverse(digits), 0, 0) = 0

\* ^[A-Za-z0-9._%+\-]+@[A-Za-z0-9.\-]+\.[A-Za-z]{2,}$
email_structure_pattern ==
    Cat(<<Rep(Chr(Upper \cup Lower \cup Digit \cup {".", "_", "%", "+", "-"}), 1, -1),
          Lit(<<"@">>),
          Rep(Chr(Upper \cup Lower \cup Digit \cup {".", "-"}), 1, -1),
          Lit(<<".">>),
          Rep(Chr(Upper \cup Lower), 2, -1),
          AtEnd>>)

\* ^[A-Z]{4}0[A-Z0-9]{6}$
ifsc_pattern ==
    Cat(<<Rep(Chr(Upper), 4, 4),
          Lit(<<"0">>),
          Rep(Chr(Upper \cup Digit), 6, 6),
          AtEnd>>)

validate_email_structure(email) == re_match(email_structure_pattern, email)

validate_ifsc(code) == re_match(ifsc_pattern, code)

validate_ssn(ssn) ==
    LET digits == strip_separators(ssn)
    IN  IF ~isdigit(digits) \/ Len(digits) # 9 THEN FALSE
        ELSE LET area   == int_of(Slice(digits, 0, 3))
                 group  == int_of(Slice(digits, 3, 5))
                 serial == int_of(Slice(digits, 5, 9))
             IN  IF area = 0 \/ area = 666 \/ area >= 900 THEN FALSE
                 ELSE IF group = 0 THEN FALSE
                 ELSE IF serial = 0 THEN FALSE
                 ELSE TRUE

\* int(part) is taken on the parts the IP_ADDRESS pattern yields (one to three
\* digits); a part that is not a digit string is the ValueError branch
validate_ip_address(ip) ==
    LET parts == split(ip, <<".">>)
    IN  IF Len(parts) # 4 THEN FALSE
        ELSE \A i \in 1..4 :
               /\ isdigit(parts[i])
               /\ Len(parts[i]) <= 9
               /\ ~(int_of(parts[i]) < 0 \/ int_of(parts[i]) > 255)

\* number is a CREDIT_CARD match, so d holds digits only
validate_card_prefix(number) ==
    LET d == strip_separators(number)
    IN  IF Len(d) < 13 THEN FALSE
        ELSE IF d[1] = "4" THEN TRUE
        ELSE IF Prefix(d, 2) \in {<<"3", "4">>, <<"3", "7">>} THEN TRUE
        ELSE IF 51 <= int_of(Prefix(d, 2)) /\ int_of(Prefix(d, 2)) <= 55 THEN TRUE
        ELSE IF 2221 <= int_of(Prefix(d, 4)) /\ int_of(Prefix(d, 4)) <= 2720 THEN TRUE
        ELSE IF Prefix(d, 4) = <<"6", "0", "1", "1">> \/ Prefix(d, 2) = <<"6", "5">> THEN TRUE
        ELSE IF Prefix(d, 2) = <<"3", "6">> \/ Prefix(d, 2) = <<"3", "8">> THEN TRUE
        ELSE IF 300 <= int_of(Prefix(d, 3)) /\ int_of(Prefix(d, 3)) <= 305 THEN TRUE
        ELSE FALSE

(***************************************************************************)
(* detector.py: PIIDetection                                               *)
(***************************************************************************)
PIIDetection(pii_type, value, start, end) ==
    [pii_type   |-> pii_type,
     value      |-> value,
     start      |-> start,
     end        |-> end,
     confidence |-> PII_TYPES[pii_type].confidence,
     risk_level |-> PII_TYPES[pii_type].risk,
     category   |-> PII_TYPES[pii_type].category,
     label      |-> PII_TYPES[pii_type].label]

\* variant: a type without a validator fails validation
_validate_detection_closed(pii_type, value) ==
    IF pii_type = "CREDIT_CARD" THEN validate_card_prefix(value) /\ luhn_check(value)
    ELSE IF pii_type = "AADHAAR" THEN verhoeff_check(value)
    ELSE IF pii_type = "SSN" THEN validate_ssn(value)
    ELSE IF pii_type = "EMAIL" THEN validate_email_structure(value)
    ELSE IF pii_type = "IFSC" THEN validate_ifsc(value)
    ELSE IF pii_type = "IP_ADDRESS" THEN validate_ip_address(value)
    ELSE FALSE

_validate_detection(pii_type, value) ==
    IF pii_type = "CREDIT_CARD" THEN validate_card_prefix(value) /\ luhn_check(value)
    ELSE IF pii_type = "AADHAAR" THEN verhoeff_check(value)
    ELSE IF pii_type = "SSN" THEN validate_ssn(value)
    ELSE IF pii_type = "EMAIL" THEN validate_email_structure(value)
    ELSE IF pii_type = "IFSC" THEN validate_ifsc(value)
    ELSE IF pii_type = "IP_ADDRESS" THEN validate_ip_address(value)
    ELSE TRUE

\* The exceptions the validators can raise.  int(s) raises ValueError unless
\* s is a decimal literal; it is taken to raise unless s is a non-empty
\* string of digits, which covers every string int accepts among those a
\* validator passes to it after stripping whitespace and dashes.
int_raises(s) == Len(s) = 0 \/ ~isdigit(s)

\* luhn_check: int(ch) for each character, after the isdigit guard
luhn_check_raises(number) ==
    LET digits == strip_separators(number)
    IN  IF ~isdigit(digits) \/ Len(digits) < 13 \/ Len(digits) > 19 THEN FALSE
        ELSE \E i \in 1..Len(digits) : int_raises(<<digits[i]>>)

\* verhoeff_check: int(ch) for each character and the two table lookups
verhoeff_check_raises(number) ==
    LET digits == strip_separators(number)
    IN  IF ~isdigit(digits) \/ Len(digits) # 12 THEN FALSE
        ELSE \E i \in 1..Len(digits) :
               \/ int_raises(<<digits[i]>>)
               \/ int_of_digit(digits[i]) + 1 \notin DOMAIN _VERHOEFF_P[1]

\* validate_ssn: int() of the three slices, after the isdigit guard
validate_ssn_raises(ssn) ==
    LET digits == strip_separators(ssn)
    IN  IF ~isdigit(digits) \/ Len(digits) # 9 THEN FALSE
        ELSE \/ int_raises(Slice(digits, 0, 3))
             \/ int_raises(Slice(digits, 3, 5))
             \/ int_raises(Slice(digits, 5, 9))

\* validate_ip_address: int(part) sits in try/except ValueError, the only
\* exception int raises on a string
validate_ip_address_raises(ip) == FALSE

\* validate_card_prefix: d[0] and the three int() calls have no guard but
\* the length test, so each is reached only if no earlier test returned
validate_card_prefix_raises(number) ==
    LET d == strip_separators(number)
    IN  IF Len(d) < 13 THEN FALSE
        ELSE IF d[1] = "4" THEN FALSE
        ELSE IF Prefix(d, 2) \in {<<"3", "4">>, <<"3", "7">>} THEN FALSE
        ELSE IF int_raises(Prefix(d, 2)) THEN TRUE
        ELSE IF 51 <= int_of(Prefix(d, 2)) /\ int_of(Prefix(d, 2)) <= 55 THEN FALSE
        ELSE IF int_raises(Prefix(d, 4)) THEN TRUE
        ELSE IF 2221 <= int_of(Prefix(d, 4)) /\ int_of(Prefix(d, 4)) <= 2720 THEN FALSE
        ELSE IF Prefix(d, 4) = <<"6", "0", "1", "1">> \/ Prefix(d, 2) = <<"6", "5">> THEN FALSE
        ELSE IF Prefix(d, 2) = <<"3", "6">> \/ Prefix(d, 2) = <<"3", "8">> THEN FALSE
        ELSE int_raises(Prefix(d, 3))

\* _validate_detection raises when the validator it dispatches to does;
\* luhn_check runs only if validate_card_prefix returned True
_validate_detection_raises(pii_type, value) ==
    IF pii_type = "CREDIT_CARD"
    THEN \/ validate_card_prefix_raises(value)
         \/ (validate_card_prefix(value) /\ luhn_check_raises(value))
    ELSE IF pii_type = "AADHAAR" THEN verhoeff_check_raises(value)
    ELSE IF pii_type = "SSN" THEN validate_ssn_raises(value)
    ELSE IF pii_type = "IP_ADDRESS" THEN validate_ip_address_raises(value)
    ELSE FALSE

\* the span a match contributes: group 1 when the pattern has one, else the match
match_span(m) == IF m.g # <<>> THEN m.g ELSE <<m.start, m.end>>

\* the candidates of _detect_regex in the order its two loops visit them:
\* <<i, j, m>> is the j-th match m of the pattern of DETECTION_ORDER[i]
candidates(text) ==
    UNION {LET ms == finditer(PATTERNS[DETECTION_ORDER[i]], text)
           IN  {<<i, j, ms[j]>> : j \in 1..Len(ms)} :
           i \in {i \in 1..Len(DETECTION_ORDER) : DETECTION_ORDER[i] \in DOMAIN PATTERNS}}

visited_before(c1, c2) == c1[1] < c2[1] \/ (c1[1] = c2[1] /\ c1[2] < c2[2])

\* the n-th candidate visited
candidate(cands, n) ==
    CHOOSE c \in cands : Cardinality({c2 \in cands : visited_before(c2, c)}) = n - 1

\* variant: no span is ever taken as covered
is_covered_never(start, end, covered_spans) == FALSE

\* any(s <= start and e >= end for s, e in covered_spans)
is_covered(start, end, covered_spans) ==
    \E cs \in covered_spans : cs[1] <= start /\ cs[2] >= end

\* variant: every candidate a pattern matched is recorded
scan_candidates_unvalidated(cands, n, text, st) ==
    [results |-> [k \in 1..Cardinality(cands) |->
                     LET c    == candidate(cands, k)
                         span == match_span(c[3])
                     IN  PIIDetection(DETECTION_ORDER[c[1]], Slice(text, span[1], span[2]),
                                      span[1], span[2])],
     covered_spans |-> {}]

\* the body of the loops of _detect_regex from the n-th candidate on;
\* st = [results, covered_spans]
RECURSIVE scan_candidates(_, _, _, _)
scan_candidates(cands, n, text, st) ==
    IF n > Cardinality(cands) THEN st
    ELSE LET c        == candidate(cands, n)
             pii_type == DETECTION_ORDER[c[1]]
             span     == match_span(c[3])
             start    == span[1]
             end      == span[2]
             value    == Slice(text, start, end)
         IN  IF is_covered(start, end, st.covered_spans)
             THEN scan_candidates(cands, n + 1, text, st)
             ELSE IF ~_validate_detection(pii_type, value)
             THEN scan_candidates(cands, n + 1, text, st)
             ELSE scan_candidates(cands, n + 1, text,
                      [results |-> Append(st.results, PIIDetection(pii_type, value, start, end)),
                       covered_spans |-> st.covered_spans \cup {span}])

\* variant: every candidate visited claims its span, recorded or not
_detect_regex_claiming(text) ==
    LET cands == candidates(text)
        inside(c, c0) == /\ match_span(c0[3])[1] <= match_span(c[3])[1]
                         /\ match_span(c0[3])[2] >= match_span(c[3])[2]
        kept  == {c \in cands :
                     /\ _validate_detection(DETECTION_ORDER[c[1]],
                            Slice(text, match_span(c[3])[1], match_span(c[3])[2]))
                     /\ ~\E c0 \in cands : visited_before(c0, c) /\ inside(c, c0)}
    IN  [k \in 1..Cardinality(kept) |->
            LET c == candidate(kept, k)
            IN  PIIDetection(DETECTION_ORDER[c[1]],
                             Slice(text, match_span(c[3])[1], match_span(c[3])[2]),
                             match_span(c[3])[1], match_span(c[3])[2])]

_detect_regex(text) ==
    scan_candidates(candidates(text), 1, text, [results |-> <<>>, covered_spans |-> {}]).results

\* variant: the candidates taken in the order encountered
sort_by_confidence_unsorted(xs) == xs

\* sorted(xs, key=confidence, reverse=True): stable, so equal confidences keep
\* their order; x goes before the first element of smaller confidence
RECURSIVE sort_by_confidence_desc(_)
sort_by_confidence_desc(xs) ==
    IF Len(xs) = 0 THEN <<>>
    ELSE LET front == sort_by_confidence_desc(SubSeq(xs, 1, Len(xs) - 1))
             x     == xs[Len(xs)]
             n     == Cardinality({i \in 1..Len(front) : front[i].confidence >= x.confidence})
         IN  SubSeq(front, 1, n) \o <<x>> \o SubSeq(front, n + 1, Len(front))

\* variant: the list left in the order deduplication returned it
sort_by_start_skipped(xs) == xs

\* list.sort(key=start): stable ascending
RECURSIVE sort_by_start(_)
sort_by_start(xs) ==
    IF Len(xs) = 0 THEN <<>>
    ELSE LET front == sort_by_start(SubSeq(xs, 1, Len(xs) - 1))
             x     == xs[Len(xs)]
             n     == Cardinality({i \in 1..Len(front) : front[i].start <= x.start})
         IN  SubSeq(front, 1, n) \o <<x>> \o SubSeq(front, n + 1, Len(front))

\* sorted(xs, key=start, reverse=True): stable descending
RECURSIVE sort_by_start_desc(_)
sort_by_start_desc(xs) ==
    IF Len(xs) = 0 THEN <<>>
    ELSE LET front == sort_by_start_desc(SubSeq(xs, 1, Len(xs) - 1))
             x     == xs[Len(xs)]
             n     == Cardinality({i \in 1..Len(front) : front[i].start >= x.start})
         IN  SubSeq(front, 1, n) \o <<x>> \o SubSeq(front, n + 1, Len(front))

\* variant: only a detection lying inside a kept one counts as overlapping
spans_overlap_inside(det, kept_det) == det.start >= kept_det.start /\ det.end <= kept_det.end

\* the overlap test of _deduplicate between det and a kept detection
spans_overlap(det, kept_det) == det.start < kept_det.end /\ det.end > kept_det.start

\* the loop of _deduplicate; kept carries the spans it has used
RECURSIVE dedup_loop(_, _, _)
dedup_loop(sorted_dets, j, kept) ==
    IF j > Len(sorted_dets) THEN kept
    ELSE LET det == sorted_dets[j]
         IN  IF \E i \in 1..Len(kept) : spans_overlap(det, kept[i])
             THEN dedup_loop(sorted_dets, j + 1, kept)
             ELSE dedup_loop(sorted_dets, j + 1, Append(kept, det))

\* variant: the candidates are not sorted by confidence first
_deduplicate_in_order(dets) ==
    IF Len(dets) = 0 THEN <<>>
    ELSE dedup_loop(dets, 1, <<>>)

_deduplicate(dets) ==
    IF Len(dets) = 0 THEN <<>>
    ELSE dedup_loop(sort_by_confidence_desc(dets), 1, <<>>)

detect(text) ==
    IF is_blank(text) THEN <<>>
    ELSE sort_by_start(_deduplicate(_detect_regex(text)))

(***************************************************************************)
(* risk_engine.py: PIIRiskEngine                                           *)
(***************************************************************************)
risk_order == <<"Low", "Medium", "High", "Critical">>

risk_index(l) == CHOOSE i \in 1..Len(risk_order) : risk_order[i] = l

\* the loop of score over the detections: <<max_risk, dominant_type>>
RECURSIVE max_risk_scan(_, _, _, _)
max_risk_scan(dets, i, max_risk, dominant_type) ==
    IF i > Len(dets) THEN <<max_risk, dominant_type>>
    ELSE IF risk_index(dets[i].risk_level) > risk_index(max_risk)
         THEN max_risk_scan(dets, i + 1, dets[i].risk_level, dets[i].pii_type)
         ELSE max_risk_scan(dets, i + 1, max_risk, dominant_type)

\* sum(d.confidence for d in detections): float additions from the left,
\* starting from the integer 0 (0 + x is x)
RECURSIVE confidence_sum(_, _)
confidence_sum(dets, n) ==
    IF n = 1 THEN FloatOfHundredths(dets[1].confidence)
    ELSE FloatAdd(confidence_sum(dets, n - 1), FloatOfHundredths(dets[n].confidence))

\* variant: the thresholds compared with > instead of >=
final_level_of_exclusive(final_score) ==
    IF final_score > RISK_SCORE_MAP["Critical"] THEN "Critical"
    ELSE IF final_score > RISK_SCORE_MAP["High"] THEN "High"
    ELSE IF final_score > RISK_SCORE_MAP["Medium"] THEN "Medium"
    ELSE "Low"

final_level_of(final_score) ==
    IF final_score >= RISK_SCORE_MAP["Critical"] THEN "Critical"
    ELSE IF final_score >= RISK_SCORE_MAP["High"] THEN "High"
    ELSE IF final_score >= RISK_SCORE_MAP["Medium"] THEN "Medium"
    ELSE "Low"

\* variant: the empty list scored like the lowest non-empty one
no_pii_score_floor ==
    [level |-> "Low", score |-> 1, summary |-> "No PII detected",
     detections_count |-> 0, dominant_type |-> "None"]

\* type_counts of score: <<label, count>> per label, in the order the
\* labels first occur
RECURSIVE type_counts(_)
type_counts(dets) ==
    IF Len(dets) = 0 THEN <<>>
    ELSE LET front == type_counts(SubSeq(dets, 1, Len(dets) - 1))
             label == PII_TYPES[dets[Len(dets)].pii_type].label
         IN  IF \E i \in 1..Len(front) : front[i][1] = label
             THEN [i \in 1..Len(front) |->
                      IF front[i][1] = label THEN <<label, front[i][2] + 1>> ELSE front[i]]
             ELSE Append(front, <<label, 1>>)

\* the summary string of score, as the parts it is formatted from
score_summary(dets, source, final_level, final_score) ==
    [count |-> Len(dets), source |-> source, parts |-> type_counts(dets),
     level |-> final_level, score |-> final_score]

\* the PIIRiskScore of an empty detection list
no_pii_score ==
    [level |-> "Low", score |-> 0, summary |-> "No PII detected",
     detections_count |-> 0, dominant_type |-> "None"]

score(dets) ==
    IF Len(dets) = 0
    THEN no_pii_score
    ELSE LET scan           == max_risk_scan(dets, 1, "Low", dets[1].pii_type)
             base_score     == RISK_SCORE_MAP[scan[1]]
             multi_penalty  == Min((Len(dets) - 1) * 5, 20)
             raw_score      == Min(base_score + multi_penalty, 100)
             avg_confidence == FloatDivInt(confidence_sum(dets, Len(dets)), Len(dets))
             truncated      == IntOfFloat(IntMulFloat(raw_score, avg_confidence))
             final_score    == Max(1, Min(truncated, 100))
         IN  [level |-> final_level_of(final_score), score |-> final_score,
              summary |-> score_summary(dets, "unknown", final_level_of(final_score), final_score),
              detections_count |-> Len(dets), dominant_type |-> scan[2]]

\* variant: the threshold itself is not blocked
should_block_above(rs) == rs.score > BLOCK_THRESHOLD

should_block(rs) == rs.score >= BLOCK_THRESHOLD

\* variant: a detail carries the detection as as_dict gives it
alert_detail_as_dict(d) ==
    [type |-> d.pii_type, label |-> d.label, value |-> d.value, confidence |-> d.confidence,
     risk_level |-> d.risk_level, category |-> d.category]

\* one entry of the details of to_alert
alert_detail(d) ==
    [type |-> d.pii_type, label |-> d.label, confidence |-> d.confidence,
     risk_level |-> d.risk_level, category |-> d.category]

\* to_alert(risk_score, source, detections); details is <<ds>> when the key
\* is present and <<>> when it is not (detections None or empty)
to_alert(rs, source, dets) ==
    [alert_type       |-> "PII_DETECTION",
     risk_level       |-> rs.level,
     risk_score       |-> rs.score,
     detections_count |-> rs.detections_count,
     dominant_type    |-> rs.dominant_type,
     source           |-> source,
     summary          |-> rs.summary,
     should_block     |-> should_block(rs),
     details          |-> IF Len(dets) > 0
                          THEN <<[i \in 1..Len(dets) |-> alert_detail(dets[i])]>>
                          ELSE <<>>]

(***************************************************************************)
(* sanitizer.py                                                            *)
(***************************************************************************)
\* variant: one mask character for each character of the local part after
\* the first
_mask_email_by_length(value) ==
    LET parts == split(value, <<"@">>)
    IN  IF Len(parts) # 2 THEN <<"*", "*", "*", "@", "*", "*", "*">>
        ELSE <<parts[1][1]>> \o Stars(Len(parts[1]) - 1) \o <<"@">> \o parts[2]

_mask_email(value) ==
    LET parts == split(value, <<"@">>)
    IN  IF Len(parts) # 2 THEN <<"*", "*", "*", "@", "*", "*", "*">>
        ELSE IF Len(parts[1]) <= 1 THEN <<"*", "@">> \o parts[2]
        ELSE <<parts[1][1], "*", "*", "*", "@">> \o parts[2]

_mask_credit_card(value) ==
    LET digits == strip_separators(value)
    IN  IF Len(digits) < 4 THEN Stars(4)
        ELSE Stars(4) \o <<" ">> \o Stars(4) \o <<" ">> \o Stars(4) \o <<" ">> \o Last4(digits)

_mask_phone(value) ==
    LET digits == SelectSeq(value, LAMBDA c : c \in Digit)
    IN  IF Len(digits) < 4 THEN Stars(3)
        ELSE Stars(Len(digits) - 4) \o Last4(digits)

_mask_ssn(value) ==
    LET digits == strip_separators(value)
    IN  IF Len(digits) < 4 THEN Stars(3)
        ELSE Stars(3) \o <<"-">> \o Stars(2) \o <<"-">> \o Last4(digits)

_mask_aadhaar(value) ==
    LET digits == strip_separators(value)
    IN  IF Len(digits) < 4 THEN Stars(4)
        ELSE Stars(4) \o <<" ">> \o Stars(4) \o <<" ">> \o Last4(digits)

_mask_generic(value) ==
    IF Len(value) <= 2 THEN Stars(Len(value))
    ELSE <<value[1]>> \o Stars(Len(value) - 2) \o <<value[Len(value)]>>

_mask_ip(value) ==
    LET parts == split(value, <<".">>)
    IN  IF Len(parts) = 4 THEN parts[1] \o <<".">> \o parts[2] \o <<".", "*", ".", "*">>
        ELSE Stars(3)

_mask_token(value) ==
    IF Len(value) <= 8 THEN Stars(Len(value))
    ELSE Prefix(value, 4) \o <<".", ".", ".">> \o Last4(value)

_mask_private_key(value) ==
    <<"[","M","A","S","K","E","D","_","P","R","I","V","A","T","E","_","K","E","Y","]">>

_mask_db_url(value) ==
    IF find_from(value, <<":", "/", "/">>, 0) # -1
    THEN split(value, <<":", "/", "/">>)[1] \o <<":", "/", "/", "*", "*", "*">>
    ELSE Stars(3)

\* _MASK_FN.get(pii_type, _mask_generic)(value)
_MASK_FN(pii_type, value) ==
    CASE pii_type = "EMAIL" -> _mask_email(value)
      [] pii_type = "CREDIT_CARD" -> _mask_credit_card(value)
      [] pii_type = "PHONE" -> _mask_phone(value)
      [] pii_type = "SSN" -> _mask_ssn(value)
      [] pii_type = "AADHAAR" -> _mask_aadhaar(value)
      [] pii_type = "IP_ADDRESS" -> _mask_ip(value)
      [] pii_type \in {"JWT_TOKEN", "API_KEY", "ACCESS_TOKEN"} -> _mask_token(value)
      [] pii_type = "PRIVATE_KEY" -> _mask_private_key(value)
      [] pii_type = "DB_URL" -> _mask_db_url(value)
      [] OTHER -> _mask_generic(value)

\* result[:det.start] + replacement + result[det.end:]
splice(result, det, replacement) ==
    Slice(result, 0, Min(det.start, Len(result))) \o replacement
        \o Slice(result, Min(det.end, Len(result)), Len(result))

\* variant: the detections taken from the start of the text to its end
replacement_order_ascending(dets) == sort_by_start(dets)

\* the order in which _apply_mask and _apply_redact take the detections
replacement_order(dets) == sort_by_start_desc(dets)

RECURSIVE mask_loop(_, _, _)
mask_loop(sorted_dets, j, result) ==
    IF j > Len(sorted_dets) THEN result
    ELSE mask_loop(sorted_dets, j + 1,
             splice(result, sorted_dets[j],
                    _MASK_FN(sorted_dets[j].pii_type, sorted_dets[j].value)))

_apply_mask(text, dets) == mask_loop(replacement_order(dets), 1, text)

RECURSIVE redact_loop(_, _, _)
redact_loop(sorted_dets, j, result) ==
    IF j > Len(sorted_dets) THEN result
    ELSE redact_loop(sorted_dets, j + 1,
             splice(result, sorted_dets[j], PII_TYPES[sorted_dets[j].pii_type].redact_tag))

\* variant: redaction falls through to masking
_apply_redact_masking(text, dets) == _apply_mask(text, dets)

_apply_redact(text, dets) == redact_loop(replacement_order(dets), 1, text)

\* variant: blank text scored like the lowest non-empty detection list
no_content_score_floor ==
    [level |-> "Low", score |-> 1, summary |-> "No content to scan",
     detections_count |-> 0, dominant_type |-> "None"]

\* the PIIRiskScore sanitize returns for empty or blank text
no_content_score ==
    [level |-> "Low", score |-> 0, summary |-> "No content to scan",
     detections_count |-> 0, dominant_type |-> "None"]

\* variant: the mode is not consulted for detect-only
sanitize_by_mode_always(self_mode, text, dets) ==
    IF Len(dets) = 0 THEN text
    ELSE IF self_mode = "mask" THEN _apply_mask(text, dets)
    ELSE _apply_redact(text, dets)

\* step 3 of sanitize: the text for the mode
sanitize_by_mode(self_mode, text, dets) ==
    IF self_mode = "detect_only" \/ Len(dets) = 0 THEN text
    ELSE IF self_mode = "mask" THEN _apply_mask(text, dets)
    ELSE _apply_redact(text, dets)

\* variant: the detector keeps what it found across calls and reports
\* nothing for a text it has scanned before
sanitize_remembering(self_mode, text) ==
    LET dets == IF \E i \in 1..Len(call_log) : call_log[i].text = text
                THEN <<>> ELSE detect(text)
    IN  [original_text |-> text, sanitized_text |-> sanitize_by_mode(self_mode, text, dets),
         detections |-> dets, risk_score |-> score(dets), mode |-> self_mode,
         detections_count |-> Len(dets)]

\* sanitize(text) of a sanitizer whose mode is self_mode
sanitize(self_mode, text) ==
    IF is_blank(text)
    THEN [original_text |-> text, sanitized_text |-> text, detections |-> <<>>,
          risk_score |-> no_content_score, mode |-> self_mode, detections_count |-> 0]
    ELSE LET dets == detect(text)
             rs   == score(dets)
             sanitized == sanitize_by_mode(self_mode, text, dets)
         IN  [original_text |-> text, sanitized_text |-> sanitized, detections |-> dets,
              risk_score |-> rs, mode |-> self_mode, detections_count |-> Len(dets)]

(***************************************************************************)
(* SpecScore: a caller of the risk engine.  It holds a detection list,     *)
(* asks for its score and for the block decision, and adds one detection   *)
(* (built from the registry defaults, as the detector builds them) at a    *)
(* time.                                                                   *)
(***************************************************************************)
ScoreTypes == {"CREDIT_CARD", "CVV", "PHONE", "DOB"}

\* no PIIRiskScore returned yet
NoScore ==
    [level |-> "none", score |-> -1, summary |-> "",
     detections_count |-> -1, dominant_type |-> "None"]

\* the variables of the sanitizer's caller, which SpecScore leaves alone
pipeline_vars == <<input, sanitizer_mode, sanitize_result, redetected>>

InitScore ==
    /\ detections = <<>>
    /\ risk_score = NoScore
    /\ prev_score = NoScore
    /\ block_decision = <<>>
    /\ input = <<>>
    /\ sanitizer_mode = "redact"
    /\ sanitize_result = <<>>
    /\ redetected = <<>>
    /\ alert = <<>>
    /\ AuxIdle

Score ==
    /\ risk_score = NoScore
    /\ risk_score' = score(detections)
    /\ UNCHANGED <<detections, prev_score, block_decision, alert, pipeline_vars, aux_vars>>

ShouldBlock ==
    /\ risk_score # NoScore
    /\ block_decision = <<>>
    /\ block_decision' = <<should_block(risk_score)>>
    /\ UNCHANGED <<detections, risk_score, prev_score, alert, pipeline_vars, aux_vars>>

AddDetection ==
    /\ risk_score # NoScore
    /\ Len(detections) < MaxDetections
    /\ \E t \in ScoreTypes :
          detections' = Append(detections, PIIDetection(t, <<>>, 0, 0))
    /\ prev_score' = risk_score
    /\ risk_score' = NoScore
    /\ block_decision' = <<>>
    /\ alert' = <<>>
    /\ UNCHANGED <<pipeline_vars, aux_vars>>

\* the raw values the caller's detections may carry
AlertValues ==
    <<<<"j", "@", "x", ".", "i", "o">>, <<"2", "1", "9", "-", "0", "9", "-", "9", "9", "9", "9">>>>

AlertSources == {"unknown", "api_gateway"}

\* dets with raw values filled in, in rotation from the k-th of AlertValues
with_values(dets, k) ==
    [i \in 1..Len(dets) |->
        [dets[i] EXCEPT !.value = AlertValues[((i + k) % Len(AlertValues)) + 1]]]

\* alert = engine.to_alert(risk_score, source, detections), for detections
\* that carry raw values, or without the optional detections argument
ToAlert ==
    /\ risk_score # NoScore
    /\ alert = <<>>
    /\ \E k \in 0..(Len(AlertValues) - 1), source \in AlertSources, with_details \in BOOLEAN :
          alert' = <<[payload |-> to_alert(risk_score, source,
                                     IF with_details THEN with_values(detections, k) ELSE <<>>),
                      source |-> source, with_details |-> with_details, k |-> k]>>
    /\ UNCHANGED <<detections, risk_score, prev_score, block_decision, pipeline_vars, aux_vars>>

NextScore == Score \/ ShouldBlock \/ AddDetection \/ ToAlert

SpecScore == InitScore /\ [][NextScore]_vars

(***************************************************************************)
(* Spec: a caller of the sanitizer.  A PIISanitizer is constructed with a  *)
(* mode; the caller passes one text to sanitize, then may run the detector *)
(* again on the sanitized text and ask the risk engine whether to block.   *)
(* sanitize_result, redetected and block_decision are <<>> until the call they hold *)
(* the return value of has been made.                                      *)
(***************************************************************************)
Fragments ==
    <<<<"M", "y", " ", "S", "S", "N", " ", "i", "s", " ", "2", "1", "9", "-", "0", "9", "-", "9", "9", "9", "9">>,
       <<" ", "a", "n", "d", " ", "c", "a", "r", "d", " ", "i", "s", " ", "4", "1", "1", "1", "1", "1", "1", "1", "1", "1", "1", "1", "1", "1", "1", "1">>,
       <<"p", "w", "d", "=">>,
       <<"1", "1", "1", " ", "1", "1", "1", "1">>,
       <<"A", "1", "1", "1", "1", "1", "1", "1">>,
       <<" ">>,
       <<"j", "o", "h", "n", "@", "e", "x", "a", "m", "p", "l", "e", ".", "c", "o", "m">>,
       <<"4", "1", "1", "1", "1", "1", "1", "1", "1", "1", "1", "1", "1", "1", "1", "2">>>>

RECURSIVE Concat(_)
Concat(fs) == IF Len(fs) = 0 THEN <<>> ELSE Fragments[fs[1]] \o Concat(Tail(fs))

\* a private-key block whose inside matches the CREDIT_CARD and PHONE patterns
KeyBlock ==
    <<"-", "-", "-", "-", "-", "B", "E", "G", "I", "N", " ", "P",
      "R", "I", "V", "A", "T", "E", " ", "K", "E", "Y", "-", "-",
      "-", "-", "-", "4", "1", "1", "1", "1", "1", "1", "1", "1",
      "1", "1", "1", "1", "1", "1", "1", "-", "-", "-", "-", "-",
      "E", "N", "D", " ", "P", "R", "I", "V", "A", "T", "E", " ",
      "K", "E", "Y", "-", "-", "-", "-", "-">>

\* "pwd=pwd=111 1111": a PASSWORD match and a PHONE match that overlap in part
PasswordThenPhone == Concat(<<3, 3, 4>>)

\* an address whose last label holds "|", which the EMAIL pattern's class
\* [A-Z|a-z] admits
PipeEmail == <<"a", "@", "b", ".", "c", "|", "d">>

\* an address with a local part of one character
ShortEmail == <<"a", "@", "b", ".", "c", "o">>

\* the same address twice
EmailTwice == Concat(<<7, 6, 7>>)

\* the input texts: up to MaxFrags fragments in a row, and the ones above
Texts ==
    {Concat(fs) : fs \in UNION {[1..n -> 1..Len(Fragments)] : n \in 0..MaxFrags}}
        \cup {KeyBlock, PasswordThenPhone, PipeEmail, ShortEmail, EmailTwice}

Init ==
    /\ input \in Texts
    /\ sanitizer_mode \in SanitizeMode
    /\ sanitize_result = <<>>
    /\ redetected = <<>>
    /\ block_decision = <<>>
    /\ detections = <<>>
    /\ risk_score = NoScore
    /\ prev_score = NoScore
    /\ alert = <<>>
    /\ AuxIdle

\* sanitize_result = sanitizer.sanitize(input)
Sanitize ==
    /\ sanitize_result = <<>>
    /\ sanitize_result' = <<sanitize(sanitizer_mode, input)>>
    /\ UNCHANGED <<input, sanitizer_mode, redetected, block_decision, detections, risk_score, prev_score, alert, aux_vars>>

\* redetected = sanitizer.detector.detect(sanitize_result.sanitized_text)
Redetect ==
    /\ sanitize_result # <<>>
    /\ redetected = <<>>
    /\ redetected' = <<detect(sanitize_result[1].sanitized_text)>>
    /\ UNCHANGED <<input, sanitizer_mode, sanitize_result, block_decision, detections, risk_score, prev_score, alert, aux_vars>>

\* block_decision = sanitizer.risk_engine.should_block(sanitize_result.risk_score)
BlockDecision ==
    /\ sanitize_result # <<>>
    /\ block_decision = <<>>
    /\ block_decision' = <<should_block(sanitize_result[1].risk_score)>>
    /\ UNCHANGED <<input, sanitizer_mode, sanitize_result, redetected, detections, risk_score, prev_score, alert, aux_vars>>

Next == Sanitize \/ Redetect \/ BlockDecision

Spec == Init /\ [][Next]_vars

(***************************************************************************)
(* SpecRace: one PIISanitizer shared by a thread that is inside            *)
(* sanitize(input) and a thread that calls update_mode.  sanitize reads    *)
(* self.mode where it tests for detect-only, where it tests for mask and   *)
(* where it builds the SanitizeResult; a thread switch, and so an          *)
(* update_mode, can fall between any two of these.                         *)
(***************************************************************************)
RaceTexts ==
    {Concat(<<i>>) : i \in 1..Len(Fragments)} \cup {<<>>, Concat(<<1, 2>>), Concat(<<4, 6, 8>>)}

score_idle ==
    /\ detections = <<>>
    /\ risk_score = NoScore
    /\ prev_score = NoScore
    /\ block_decision = <<>>
    /\ alert = <<>>

InitRace ==
    /\ input \in RaceTexts
    /\ sanitizer_mode \in SanitizeMode
    /\ sanitize_result = <<>>
    /\ redetected = <<>>
    /\ sanitize_pc = "start"
    /\ sanitize_frame = <<>>
    /\ score_idle
    /\ DedupIdle
    /\ LoaderIdle
    /\ NewIdle

\* sanitize up to step 2: the blank test (which returns at once, reading
\* self.mode for the result), detect and score
SanitizeStart ==
    /\ sanitize_pc = "start"
    /\ IF is_blank(input)
       THEN /\ sanitize_result' = <<sanitize(sanitizer_mode, input)>>
            /\ sanitize_pc' = "done"
            /\ UNCHANGED sanitize_frame
       ELSE /\ sanitize_frame' = <<[detections |-> detect(input),
                                    risk_score |-> score(detect(input)),
                                    sanitized  |-> <<>>]>>
            /\ sanitize_pc' = "test_detect_only"
            /\ UNCHANGED sanitize_result
    /\ UNCHANGED <<input, sanitizer_mode, redetected, detections, risk_score, prev_score,
                   block_decision, alert, dedup_vars, loader_vars, new_vars>>

\* if self.mode == SanitizeMode.DETECT_ONLY or not detections: sanitized = text
SanitizeTestDetectOnly ==
    /\ sanitize_pc = "test_detect_only"
    /\ IF sanitizer_mode = "detect_only" \/ Len(sanitize_frame[1].detections) = 0
       THEN /\ sanitize_frame' = <<[sanitize_frame[1] EXCEPT !.sanitized = input]>>
            /\ sanitize_pc' = "return"
       ELSE /\ sanitize_pc' = "test_mask"
            /\ UNCHANGED sanitize_frame
    /\ UNCHANGED <<input, sanitizer_mode, sanitize_result, redetected, detections, risk_score,
                   prev_score, block_decision, alert, dedup_vars, loader_vars, new_vars>>

\* elif self.mode == SanitizeMode.MASK: _apply_mask, else: _apply_redact
SanitizeTestMask ==
    /\ sanitize_pc = "test_mask"
    /\ sanitize_frame' =
           <<[sanitize_frame[1] EXCEPT !.sanitized =
                 IF sanitizer_mode = "mask"
                 THEN _apply_mask(input, sanitize_frame[1].detections)
                 ELSE _apply_redact(input, sanitize_frame[1].detections)]>>
    /\ sanitize_pc' = "return"
    /\ UNCHANGED <<input, sanitizer_mode, sanitize_result, redetected, detections, risk_score,
                   prev_score, block_decision, alert, dedup_vars, loader_vars, new_vars>>

\* return SanitizeResult(..., mode=self.mode)
SanitizeReturn ==
    /\ sanitize_pc = "return"
    /\ sanitize_result' =
           <<[original_text |-> input, sanitized_text |-> sanitize_frame[1].sanitized,
              detections |-> sanitize_frame[1].detections,
              risk_score |-> sanitize_frame[1].risk_score, mode |-> sanitizer_mode,
              detections_count |-> Len(sanitize_frame[1].detections)]>>
    /\ sanitize_pc' = "done"
    /\ UNCHANGED <<input, sanitizer_mode, sanitize_frame, redetected, detections, risk_score,
                   prev_score, block_decision, alert, dedup_vars, loader_vars, new_vars>>

\* sanitizer.update_mode(m) in the other thread
UpdateMode ==
    /\ \E m \in SanitizeMode \ {sanitizer_mode} : sanitizer_mode' = m
    /\ UNCHANGED <<input, sanitize_result, sanitize_pc, sanitize_frame, redetected, detections,
                   risk_score, prev_score, block_decision, alert, dedup_vars, loader_vars, new_vars>>

NextRace ==
    SanitizeStart \/ SanitizeTestDetectOnly \/ SanitizeTestMask \/ SanitizeReturn \/ UpdateMode

SpecRace == InitRace /\ [][NextRace]_vars

(***************************************************************************)
(* SpecDedup: a caller of PIIDetector._deduplicate.  It builds a candidate *)
(* list one detection at a time (spans and types from small sets, each     *)
(* candidate's value naming its place in the list) and asks for the        *)
(* deduplicated list.                                                      *)
(***************************************************************************)
DedupSpans == {<<0, 2>>, <<1, 3>>, <<2, 4>>, <<0, 4>>}

DedupTypes == {"CREDIT_CARD", "PHONE", "IP_ADDRESS"}

InitDedup ==
    /\ dedup_input = <<>>
    /\ dedup_kept = <<>>
    /\ input = <<>>
    /\ sanitizer_mode = "redact"
    /\ sanitize_result = <<>>
    /\ redetected = <<>>
    /\ score_idle
    /\ RaceIdle
    /\ LoaderIdle
    /\ NewIdle

AddCandidate ==
    /\ Len(dedup_input) < MaxCandidates
    /\ \E t \in DedupTypes, sp \in DedupSpans :
          dedup_input' = Append(dedup_input,
                                PIIDetection(t, <<UpperSeq[Len(dedup_input) + 1]>>, sp[1], sp[2]))
    /\ dedup_kept' = <<>>
    /\ UNCHANGED <<detections, risk_score, prev_score, block_decision, alert,
                   pipeline_vars, race_vars, loader_vars, new_vars>>

\* dedup_kept = detector._deduplicate(dedup_input)
Deduplicate ==
    /\ dedup_kept = <<>>
    /\ dedup_kept' = <<_deduplicate(dedup_input)>>
    /\ UNCHANGED <<dedup_input, detections, risk_score, prev_score, block_decision, alert,
                   pipeline_vars, race_vars, loader_vars, new_vars>>

NextDedup == AddCandidate \/ Deduplicate

SpecDedup == InitDedup /\ [][NextDedup]_vars

(***************************************************************************)
(* SpecLoader: threads that each call _get_presidio_analyzer once, on a    *)
(* freshly loaded module.  The function takes no lock, so another thread   *)
(* can run between any two of its reads and writes of the module global.   *)
(* An AnalyzerEngine is named by the number of the call that built it.     *)
(***************************************************************************)
InitLoader ==
    /\ presidio_installed \in BOOLEAN
    /\ LoaderFresh
    /\ input = <<>>
    /\ sanitizer_mode = "redact"
    /\ sanitize_result = <<>>
    /\ redetected = <<>>
    /\ score_idle
    /\ RaceIdle
    /\ DedupIdle
    /\ NewIdle

loader_others == <<detections, risk_score, prev_score, block_decision, alert,
                   pipeline_vars, race_vars, dedup_vars, new_vars, presidio_installed>>

loader_history == <<loader_after_failure>>

\* some call has found the capability unavailable and returned None
unavailable_found == \E t \in LoaderThreads : loader_returned[t] = <<<<>>>>

\* thread t calls _get_presidio_analyzer()
LoaderCall(t) ==
    /\ loader_pc[t] = "idle"
    /\ loader_pc' = [loader_pc EXCEPT ![t] = "test"]
    /\ loader_after_failure' = [loader_after_failure EXCEPT ![t] = unavailable_found]
    /\ UNCHANGED <<_presidio_analyzer, analyzers_constructed, loader_new, loader_returned,
                   loader_others>>

\* if _presidio_analyzer is not None
LoaderTest(t) ==
    /\ loader_pc[t] = "test"
    /\ loader_pc' = [loader_pc EXCEPT
                        ![t] = IF _presidio_analyzer # <<>> THEN "return_global" ELSE "import"]
    /\ UNCHANGED <<_presidio_analyzer, analyzers_constructed, loader_new, loader_returned,
                   loader_others, loader_history>>

\* from presidio_analyzer import AnalyzerEngine; on ImportError: return None
LoaderImport(t) ==
    /\ loader_pc[t] = "import"
    /\ IF presidio_installed
       THEN /\ loader_pc' = [loader_pc EXCEPT ![t] = "construct"]
            /\ UNCHANGED loader_returned
       ELSE /\ loader_pc' = [loader_pc EXCEPT ![t] = "done"]
            /\ loader_returned' = [loader_returned EXCEPT ![t] = <<<<>>>>]
    /\ UNCHANGED <<_presidio_analyzer, analyzers_constructed, loader_new, loader_others, loader_history>>

\* AnalyzerEngine()
LoaderConstruct(t) ==
    /\ loader_pc[t] = "construct"
    /\ analyzers_constructed' = analyzers_constructed + 1
    /\ loader_new' = [loader_new EXCEPT ![t] = <<analyzers_constructed + 1>>]
    /\ loader_pc' = [loader_pc EXCEPT ![t] = "assign"]
    /\ UNCHANGED <<_presidio_analyzer, loader_returned, loader_others, loader_history>>

\* _presidio_analyzer = <the AnalyzerEngine just built>
LoaderAssign(t) ==
    /\ loader_pc[t] = "assign"
    /\ _presidio_analyzer' = loader_new[t]
    /\ loader_pc' = [loader_pc EXCEPT ![t] = "return_global"]
    /\ UNCHANGED <<analyzers_constructed, loader_new, loader_returned, loader_others, loader_history>>

\* return _presidio_analyzer
LoaderReturn(t) ==
    /\ loader_pc[t] = "return_global"
    /\ loader_returned' = [loader_returned EXCEPT ![t] = <<_presidio_analyzer>>]
    /\ loader_pc' = [loader_pc EXCEPT ![t] = "done"]
    /\ UNCHANGED <<_presidio_analyzer, analyzers_constructed, loader_new, loader_others, loader_history>>

\* _detect_ner up to its test of the analyzer: <<[]>>, the empty list it
\* returns, when the loader gave None; <<>> when it goes on to the analysis
_detect_ner_no_analyzer(analyzer) == IF analyzer = <<>> THEN <<<<>>>> ELSE <<>>

NextLoader ==
    \E t \in LoaderThreads :
        \/ LoaderCall(t)
        \/ LoaderTest(t)
        \/ LoaderImport(t)
        \/ LoaderConstruct(t)
        \/ LoaderAssign(t)
        \/ LoaderReturn(t)

SpecLoader == InitLoader /\ [][NextLoader]_vars

(***************************************************************************)
(* SpecCalls: a caller that holds one PIIDetector, one PIIRiskEngine and   *)
(* one PIISanitizer and makes up to MaxCalls calls of detect, score and    *)
(* sanitize on texts of its choice, keeping each call's result.  None of   *)
(* the three methods assigns a field of its object, so the only object     *)
(* state a call reads, the sanitizer's mode, stays as constructed.         *)
(***************************************************************************)
MaxCalls == 3

CallTexts == {Fragments[7], Fragments[8]}

\* the variables of the other specifications at rest
pipeline_idle ==
    /\ input = <<>>
    /\ sanitize_result = <<>>
    /\ redetected = <<>>

InitCalls ==
    /\ call_log = <<>>
    /\ sanitizer_mode \in SanitizeMode
    /\ pipeline_idle
    /\ score_idle
    /\ RaceIdle
    /\ DedupIdle
    /\ LoaderIdle
    /\ ConstructIdle
    /\ CheckIdle

calls_others == <<detections, risk_score, prev_score, block_decision, alert,
                  pipeline_vars, race_vars, dedup_vars, loader_vars,
                  construct_vars, check_vars>>

\* detector.detect(text)
CallDetect ==
    /\ Len(call_log) < MaxCalls
    /\ \E text \in CallTexts :
           call_log' = Append(call_log, [op |-> "detect", text |-> text,
                                         mode |-> sanitizer_mode, result |-> detect(text)])
    /\ UNCHANGED calls_others

\* engine.score(detections), the detections being those of text
CallScore ==
    /\ Len(call_log) < MaxCalls
    /\ \E text \in CallTexts :
           call_log' = Append(call_log, [op |-> "score", text |-> text,
                                         mode |-> sanitizer_mode, result |-> score(detect(text))])
    /\ UNCHANGED calls_others

\* sanitizer.sanitize(text)
CallSanitize ==
    /\ Len(call_log) < MaxCalls
    /\ \E text \in CallTexts :
           call_log' = Append(call_log, [op |-> "sanitize", text |-> text,
                                         mode |-> sanitizer_mode,
                                         result |-> sanitize(sanitizer_mode, text)])
    /\ UNCHANGED calls_others

NextCalls == CallDetect \/ CallScore \/ CallSanitize

SpecCalls == InitCalls /\ [][NextCalls]_vars

(***************************************************************************)
(* SpecConstruct: PIIDetector.__init__ run on a pattern table in which up  *)
(* to MaxUnparseable patterns are not valid regular expressions.  The      *)
(* constructor compiles the patterns one at a time in detection order;     *)
(* re.compile raises re.error on an invalid one and nothing catches it, so *)
(* the exception leaves __init__ and the caller gets no detector.  A       *)
(* caller can call detect only on a detector a constructor returned.       *)
(***************************************************************************)
MaxUnparseable == 1

InitConstruct ==
    /\ unparseable \in {u \in SUBSET (DOMAIN PATTERNS) : Cardinality(u) <= MaxUnparseable}
    /\ init_pc = <<"idle", 0>>
    /\ _compiled_patterns = {}
    /\ detect_table = <<>>
    /\ sanitizer_mode = "redact"
    /\ pipeline_idle
    /\ score_idle
    /\ RaceIdle
    /\ DedupIdle
    /\ LoaderIdle
    /\ CallsIdle
    /\ CheckIdle

construct_others == <<detections, risk_score, prev_score, block_decision, alert,
                      pipeline_vars, race_vars, dedup_vars, loader_vars,
                      calls_vars, check_vars, unparseable>>

\* variant: a pattern that does not compile is skipped
compile_step_skipping(compiled, pii_type, bad) ==
    IF pii_type \notin DOMAIN PATTERNS \/ pii_type \in bad
    THEN [raised |-> FALSE, compiled |-> compiled]
    ELSE [raised |-> FALSE, compiled |-> compiled \cup {pii_type}]

\* one turn of the loop of __init__: compiled is the key set of
\* self._compiled_patterns, bad the types whose pattern re.compile rejects
compile_step(compiled, pii_type, bad) ==
    IF pii_type \notin DOMAIN PATTERNS THEN [raised |-> FALSE, compiled |-> compiled]
    ELSE IF pii_type \in bad THEN [raised |-> TRUE, compiled |-> compiled]
    ELSE [raised |-> FALSE, compiled |-> compiled \cup {pii_type}]

\* PIIDetector(): self._compiled_patterns = {}
ConstructorEnter ==
    /\ init_pc = <<"idle", 0>>
    /\ init_pc' = <<"loop", 1>>
    /\ _compiled_patterns' = {}
    /\ UNCHANGED <<detect_table, construct_others>>

\* for pii_type in DETECTION_ORDER: ... re.compile(PATTERNS[pii_type], ...)
ConstructorCompile ==
    /\ init_pc[1] = "loop"
    /\ init_pc[2] <= Len(DETECTION_ORDER)
    /\ LET r == compile_step(_compiled_patterns, DETECTION_ORDER[init_pc[2]], unparseable)
       IN  /\ _compiled_patterns' = r.compiled
           /\ init_pc' = IF r.raised THEN <<"raised", init_pc[2]>>
                          ELSE <<"loop", init_pc[2] + 1>>
    /\ UNCHANGED <<detect_table, construct_others>>

\* the loop is over: the constructor returns the detector
ConstructorReturn ==
    /\ init_pc = <<"loop", Len(DETECTION_ORDER) + 1>>
    /\ init_pc' = <<"returned", 0>>
    /\ UNCHANGED <<_compiled_patterns, detect_table, construct_others>>

\* detector.detect(text), which reads self._compiled_patterns
ConstructedDetect ==
    /\ init_pc[1] = "returned"
    /\ detect_table = <<>>
    /\ detect_table' = <<_compiled_patterns>>
    /\ UNCHANGED <<init_pc, _compiled_patterns, construct_others>>

NextConstruct ==
    ConstructorEnter \/ ConstructorCompile \/ ConstructorReturn \/ ConstructedDetect

SpecConstruct == InitConstruct /\ [][NextConstruct]_vars

(***************************************************************************)
(* SpecValidators: a caller of verhoeff_check and luhn_check.  It holds a  *)
(* string, asks a validator for its verdict, and may change one digit of a *)
(* string verhoeff_check accepted and ask again.                           *)
(***************************************************************************)
SuffixLen == 2

VerhoeffBases ==
    {<<"2", "3", "4", "1", "2", "3", "4", "1", "2", "3">>,
     <<"0", "0", "0", "0", "0", "0", "0", "0", "0", "0">>,
     <<"9", "8", "7", "6", " ", "5", "4", "3", "2", "-", "1", "0">>}

LuhnBases ==
    {<<"4", "1", "1", "1", "1", "1", "1", "1", "1", "1">>,
     <<"4", "1", "1", "1", "1", "1", "1", "1", "1", "1", "1">>,
     <<"4", "1", "1", "1", "1", "1", "1", "1", "1", "1", "1", "1", "1", "1">>,
     <<"4", "1", "1", "1", "-", "1", "1", "1", "1", " ", "1", "1", "1", "1", "-", "1", "1">>,
     <<"6", "0", "1", "1", "0", "0", "0", "9", "9", "0", "1", "3", "9", "4", "2", "4", "0">>,
     <<"6", "0", "1", "1", "0", "0", "0", "9", "9", "0", "1", "3", "9", "4", "2", "4", "0", "0">>}

LuhnChars == Digit \cup {"-", " ", "x"}

\* the strings given to the validators: a base followed by SuffixLen characters
ValidatorInputs ==
    {b \o suf : b \in VerhoeffBases, suf \in [1..SuffixLen -> Digit]}
        \cup {b \o suf : b \in LuhnBases, suf \in [1..SuffixLen -> LuhnChars]}

InitValidators ==
    /\ checked \in ValidatorInputs
    /\ check_result = <<>>
    /\ check_prev = <<>>
    /\ sanitizer_mode = "redact"
    /\ pipeline_idle
    /\ score_idle
    /\ RaceIdle
    /\ DedupIdle
    /\ LoaderIdle
    /\ CallsIdle
    /\ ConstructIdle

check_others == <<detections, risk_score, prev_score, block_decision, alert,
                  pipeline_vars, race_vars, dedup_vars, loader_vars,
                  calls_vars, construct_vars>>

\* verhoeff_check(checked)
VerhoeffCheck ==
    /\ check_result = <<>>
    /\ check_result' = <<[fn |-> "verhoeff_check", ok |-> verhoeff_check(checked)]>>
    /\ UNCHANGED <<checked, check_prev, check_others>>

\* luhn_check(checked)
LuhnCheck ==
    /\ check_result = <<>>
    /\ check_result' = <<[fn |-> "luhn_check", ok |-> luhn_check(checked)]>>
    /\ UNCHANGED <<checked, check_prev, check_others>>

\* the caller replaces one digit of a string verhoeff_check accepted by a
\* different digit
ChangeDigit ==
    /\ check_prev = <<>>
    /\ check_result = <<[fn |-> "verhoeff_check", ok |-> TRUE]>>
    /\ \E pos \in 1..Len(checked) :
           /\ checked[pos] \in Digit
           /\ \E d \in Digit \ {checked[pos]} :
                  checked' = [checked EXCEPT ![pos] = d]
    /\ check_prev' = <<checked>>
    /\ check_result' = <<>>
    /\ UNCHANGED check_others

NextValidators == VerhoeffCheck \/ LuhnCheck \/ ChangeDigit

SpecValidators == InitValidators /\ [][NextValidators]_vars

(***************************************************************************)
(* Properties of the detector and the sanitizer, checked under Spec        *)
(***************************************************************************)
sanitized == sanitize_result # <<>>

\* no two detections of dets have overlapping spans
no_overlap(dets) ==
    \A i, j \in 1..Len(dets) :
        i # j => ~(dets[i].start < dets[j].end /\ dets[i].end > dets[j].start)

\* C1: the list detect returns has no two detections whose spans overlap
\* (a and b overlap iff start_a < end_b and end_a > start_b).
C1_no_overlap ==
    /\ sanitized => no_overlap(sanitize_result[1].detections)
    /\ redetected # <<>> => no_overlap(redetected[1])

\* detect returned several detections after deduplication dropped a
\* candidate that overlapped a kept one
C1_witness ==
    /\ sanitized
    /\ Len(sanitize_result[1].detections) >= 2
    /\ Len(_detect_regex(input)) > Len(sanitize_result[1].detections)

\* C2 as stated: detect on the text sanitize returned in Redact mode finds
\* nothing.
C2_redacted_is_clean ==
    (sanitized /\ sanitize_result[1].mode = "redact" /\ redetected # <<>>) =>
        redetected[1] = <<>>

\* the replacement string of a detection in a mode
replacement(self_mode, det) ==
    IF self_mode = "mask" THEN _MASK_FN(det.pii_type, det.value)
    ELSE PII_TYPES[det.pii_type].redact_tag

\* the text rebuilt from left to right: from offset pos on, the characters
\* up to the next detection, its replacement, and so on to the end
RECURSIVE rebuilt(_, _, _, _, _)
rebuilt(self_mode, original, dets, j, pos) ==
    IF j > Len(dets) THEN Slice(original, pos, Len(original))
    ELSE Slice(original, pos, dets[j].start) \o replacement(self_mode, dets[j])
             \o rebuilt(self_mode, original, dets, j + 1, dets[j].end)

\* C3: in Mask and Redact modes the sanitized text is the original text with
\* the span of each detection replaced by its mask or tag and every other
\* character kept, in order.
C3_spans_replaced ==
    (sanitized /\ sanitize_result[1].mode \in {"mask", "redact"}) =>
        sanitize_result[1].sanitized_text =
            rebuilt(sanitize_result[1].mode, input, sanitize_result[1].detections, 1, 0)

\* several spans were replaced and the text changed length
C3_witness ==
    /\ sanitized
    /\ sanitize_result[1].mode \in {"mask", "redact"}
    /\ Len(sanitize_result[1].detections) >= 2
    /\ Len(sanitize_result[1].sanitized_text) # Len(input)

\* C4: the sanitized text is the original text whenever the mode is
\* detect-only or detect found nothing.
C4_text_unchanged ==
    (sanitized /\ (sanitizer_mode = "detect_only" \/ sanitize_result[1].detections = <<>>)) =>
        sanitize_result[1].sanitized_text = input

\* detect-only left a text with detections as it was
C4_witness ==
    /\ sanitized
    /\ sanitizer_mode = "detect_only"
    /\ sanitize_result[1].detections # <<>>
    /\ sanitize_result[1].sanitized_text = input

\* the detections are exactly one SSN and one CREDIT_CARD
ssn_and_card(dets) ==
    /\ Len(dets) = 2
    /\ {dets[1].pii_type, dets[2].pii_type} = {"SSN", "CREDIT_CARD"}
    /\ \A i \in 1..2 : dets[i].risk_level = "Critical"
    /\ \A i \in 1..2 : dets[i].confidence = IF dets[i].pii_type = "SSN" THEN 92 ELSE 98

contains(s, sub) == \E p \in 0..(Len(s) - Len(sub)) : Slice(s, p, p + Len(sub)) = sub

\* C7: for a text whose detections are exactly one SSN and one CREDIT_CARD,
\* sanitize in Redact mode returns a text containing [REDACTED_SSN] and
\* [REDACTED_CREDIT_CARD] and a risk score of level Critical, for which
\* should_block answers true.
C7_ssn_and_card ==
    (sanitized /\ sanitize_result[1].mode = "redact"
        /\ ssn_and_card(sanitize_result[1].detections)) =>
        /\ contains(sanitize_result[1].sanitized_text,
                    <<"[", "R", "E", "D", "A", "C", "T", "E", "D", "_", "S", "S", "N", "]">>)
        /\ contains(sanitize_result[1].sanitized_text,
                    <<"[", "R", "E", "D", "A", "C", "T", "E", "D", "_",
                      "C", "R", "E", "D", "I", "T", "_", "C", "A", "R", "D", "]">>)
        /\ sanitize_result[1].risk_score.level = "Critical"
        /\ (block_decision # <<>> => block_decision[1] = TRUE)

\* such a text was sanitized in Redact mode and the block decision taken
C7_witness ==
    /\ sanitized
    /\ sanitize_result[1].mode = "redact"
    /\ ssn_and_card(sanitize_result[1].detections)
    /\ block_decision = <<TRUE>>

\* the detections are exactly one EMAIL with its registry defaults
one_email(dets) ==
    /\ Len(dets) = 1
    /\ dets[1].pii_type = "EMAIL"
    /\ dets[1].risk_level = "High"
    /\ dets[1].confidence = 95

\* C11 as stated: sanitizing a text whose only detection is one EMAIL
\* returns a risk score of level High.
C11_email_is_high ==
    (sanitized /\ one_email(sanitize_result[1].detections)) =>
        sanitize_result[1].risk_score.level = "High"

\* whether the candidate c of the scan is returned among dets
returned(c, dets) ==
    \E i \in 1..Len(dets) :
        /\ dets[i].pii_type = DETECTION_ORDER[c[1]]
        /\ dets[i].start = match_span(c[3])[1]
        /\ dets[i].end = match_span(c[3])[2]

\* whether the span of candidate c lies inside the span of a detection that
\* recorded holds for a type earlier in the detection order
inside_earlier(c, recorded) ==
    \E i \in 1..Len(recorded) :
        /\ \E t \in 1..(c[1] - 1) : DETECTION_ORDER[t] = recorded[i].pii_type
        /\ recorded[i].start <= match_span(c[3])[1]
        /\ recorded[i].end >= match_span(c[3])[2]

\* C14: a candidate whose span lies inside the span of a detection recorded
\* for an earlier type is never returned by detect, and the private-key
\* block yields exactly one detection, PRIVATE_KEY, over the whole block.
C14_covered_discarded ==
    sanitized =>
        /\ LET cands    == candidates(input)
               recorded == scan_candidates(cands, 1, input,
                               [results |-> <<>>, covered_spans |-> {}]).results
           IN  \A c \in cands :
                   inside_earlier(c, recorded) => ~returned(c, sanitize_result[1].detections)
        /\ input = KeyBlock =>
               /\ Len(sanitize_result[1].detections) = 1
               /\ sanitize_result[1].detections[1].pii_type = "PRIVATE_KEY"
               /\ sanitize_result[1].detections[1].start = 0
               /\ sanitize_result[1].detections[1].end = Len(KeyBlock)

\* the key block was scanned: its inside gave candidates of later types and
\* one detection came back
C14_witness ==
    /\ sanitized
    /\ input = KeyBlock
    /\ Cardinality(candidates(input)) >= 3
    /\ Len(sanitize_result[1].detections) = 1

\* whether the detection d is among dets
among(d, dets) == \E k \in 1..Len(dets) : dets[k] = d

type_place(pii_type) == CHOOSE t \in 1..Len(DETECTION_ORDER) : DETECTION_ORDER[t] = pii_type

\* the pairs <<a, b>> of detections recorded by the scan, of different types
\* and overlapping spans, the type of a earlier in the detection order
overlapping_pairs(recorded) ==
    {<<recorded[i], recorded[j]>> : <<i, j>> \in
        {p \in (1..Len(recorded)) \X (1..Len(recorded)) :
            /\ type_place(recorded[p[1]].pii_type) < type_place(recorded[p[2]].pii_type)
            /\ recorded[p[1]].start < recorded[p[2]].end
            /\ recorded[p[1]].end > recorded[p[2]].start}}

\* C16 as stated: of two candidates of different types recorded for
\* overlapping spans, detect keeps the one whose type is earlier in the
\* detection order, so the one of the later type is not returned.
C16_earlier_type_kept ==
    sanitized =>
        \A p \in overlapping_pairs(_detect_regex(input)) :
            ~among(p[2], sanitize_result[1].detections)

\* C16 amended: of two candidates of different types recorded for
\* overlapping spans at most one is returned, and confidence decides, not
\* the detection order: a recorded candidate is left out only if it overlaps
\* a returned detection of higher confidence, or of equal confidence that
\* was recorded earlier.
C16_higher_confidence_kept ==
    sanitized =>
        LET recorded == _detect_regex(input)
            dets     == sanitize_result[1].detections
        IN  /\ \A p \in overlapping_pairs(recorded) : ~(among(p[1], dets) /\ among(p[2], dets))
            /\ \A i \in 1..Len(recorded) :
                   ~among(recorded[i], dets) =>
                       \E k \in 1..Len(dets) :
                           /\ dets[k].start < recorded[i].end
                           /\ dets[k].end > recorded[i].start
                           /\ \/ dets[k].confidence > recorded[i].confidence
                              \/ /\ dets[k].confidence = recorded[i].confidence
                                 /\ \E j \in 1..(i - 1) : recorded[j] = dets[k]

\* a PASSWORD and a PHONE candidate overlap and the PHONE, later in the
\* detection order and of higher confidence, is the one returned
C16_witness ==
    /\ sanitized
    /\ input = PasswordThenPhone
    /\ \E p \in overlapping_pairs(_detect_regex(input)) :
           /\ p[1].pii_type = "PASSWORD"
           /\ p[2].pii_type = "PHONE"
           /\ among(p[2], sanitize_result[1].detections)
           /\ ~among(p[1], sanitize_result[1].detections)

sorted_by_start(dets) ==
    \A i, j \in 1..Len(dets) : i < j => dets[i].start <= dets[j].start

\* C17: the list detect returns is sorted by ascending start offset.
C17_sorted_by_start ==
    /\ sanitized => sorted_by_start(sanitize_result[1].detections)
    /\ redetected # <<>> => sorted_by_start(redetected[1])

\* detect returned two detections of which the later one in the text has
\* the higher confidence, so deduplication had put it first
C17_witness ==
    /\ sanitized
    /\ Len(sanitize_result[1].detections) >= 2
    /\ sanitize_result[1].detections[1].start < sanitize_result[1].detections[2].start
    /\ sanitize_result[1].detections[1].confidence < sanitize_result[1].detections[2].confidence

\* C18: for an empty or whitespace-only text detect returns an empty list
\* and sanitize, in every mode, returns the text unchanged with no
\* detections and a risk score of 0 at level Low.
C18_blank_text ==
    (\A i \in 1..Len(input) : input[i] \in Space) =>
        /\ sanitized =>
               /\ sanitize_result[1].sanitized_text = input
               /\ sanitize_result[1].detections = <<>>
               /\ sanitize_result[1].risk_score.score = 0
               /\ sanitize_result[1].risk_score.level = "Low"
        /\ redetected # <<>> => redetected[1] = <<>>

\* a whitespace-only text went through sanitize and detect
C18_witness ==
    /\ Len(input) > 0
    /\ \A i \in 1..Len(input) : input[i] \in Space
    /\ sanitized
    /\ sanitize_result[1].risk_score.score = 0
    /\ redetected = <<<<>>>>

candidate_type(c) == DETECTION_ORDER[c[1]]

candidate_value(text, c) == Slice(text, match_span(c[3])[1], match_span(c[3])[2])

validated_types == {"CREDIT_CARD", "AADHAAR", "SSN", "EMAIL", "IFSC", "IP_ADDRESS"}

no_validator_raises(text) ==
    \A c \in candidates(text) :
        ~_validate_detection_raises(candidate_type(c), candidate_value(text, c))

failing_left_out(text, dets) ==
    \A c \in candidates(text) :
        ~_validate_detection(candidate_type(c), candidate_value(text, c)) =>
            ~\E k \in 1..Len(dets) :
                /\ dets[k].pii_type = candidate_type(c)
                /\ <<dets[k].start, dets[k].end>> = match_span(c[3])

\* C19: no validator raises on a candidate its pattern matched, on the text
\* given to sanitize or on the sanitized text scanned again, so detect never
\* raises; and a candidate that fails validation is not among the detections
\* returned.
C19_validators_total ==
    /\ no_validator_raises(input)
    /\ sanitized =>
           /\ failing_left_out(input, sanitize_result[1].detections)
           /\ no_validator_raises(sanitize_result[1].sanitized_text)
    /\ (sanitized /\ redetected # <<>>) =>
           failing_left_out(sanitize_result[1].sanitized_text, redetected[1])

\* a pattern matched a candidate that its validator rejected, next to one
\* of the same type that passed and was returned
C19_witness ==
    /\ sanitized
    /\ \E c \in candidates(input) :
           /\ candidate_type(c) \in validated_types
           /\ ~_validate_detection(candidate_type(c), candidate_value(input, c))
           /\ \E k \in 1..Len(sanitize_result[1].detections) :
                  sanitize_result[1].detections[k].pii_type = candidate_type(c)

\* the candidates of the text that no validator of types looks at are
\* recorded by the scan unless an earlier type's recorded span covers them
unvalidated_recorded(text, types) ==
    LET recorded == _detect_regex(text)
    IN  \A c \in candidates(text) :
            candidate_type(c) \notin types =>
                (returned(c, recorded) \/ inside_earlier(c, recorded))

\* C26 as stated: only CREDIT_CARD, AADHAAR, SSN, IFSC and IP_ADDRESS
\* candidates are checked by a validator; a candidate of any other type is
\* recorded whenever its pattern matches and its span is not covered.
C26_five_types_validated ==
    sanitized =>
        unvalidated_recorded(input, {"CREDIT_CARD", "AADHAAR", "SSN", "IFSC", "IP_ADDRESS"})

\* C26 amended: EMAIL candidates are checked too, by the structural check
\* of validate_email_structure, and one that fails it is not recorded; a
\* candidate of a type other than these six is recorded whenever its
\* pattern matches and its span is not covered.
C26_six_types_validated ==
    sanitized =>
        /\ unvalidated_recorded(input, validated_types)
        /\ \A c \in candidates(input) :
               (candidate_type(c) = "EMAIL"
                   /\ ~validate_email_structure(candidate_value(input, c)))
               => ~returned(c, _detect_regex(input))

\* the EMAIL pattern matched a@b.c|d and nothing was detected
C26_witness ==
    /\ sanitized
    /\ input = PipeEmail
    /\ \E c \in candidates(input) : candidate_type(c) = "EMAIL"
    /\ sanitize_result[1].detections = <<>>

\* C27: the list detect returns never holds two detections of the same type
\* and the same matched value.
C27_no_duplicate_values ==
    sanitized =>
        \A i, j \in 1..Len(sanitize_result[1].detections) :
            (/\ sanitize_result[1].detections[i].pii_type = sanitize_result[1].detections[j].pii_type
             /\ sanitize_result[1].detections[i].value = sanitize_result[1].detections[j].value)
            => i = j

\* where the replacement of the j-th detection starts in the masked text
RECURSIVE masked_start(_, _)
masked_start(dets, j) ==
    IF j = 1 THEN dets[1].start
    ELSE masked_start(dets, j - 1) + Len(replacement("mask", dets[j - 1]))
             + (dets[j].start - dets[j - 1].end)

\* what the masked text shows in place of the j-th detection
shown(masked, dets, j) ==
    Slice(masked, masked_start(dets, j),
          masked_start(dets, j) + Len(replacement("mask", dets[j])))

at_sign(value) == CHOOSE i \in 1..Len(value) : value[i] = "@"

local_part(value) == SubSeq(value, 1, at_sign(value) - 1)

domain_part(value) == SubSeq(value, at_sign(value) + 1, Len(value))

email_detections(dets) == {j \in 1..Len(dets) : dets[j].pii_type = "EMAIL"}

\* C28 as stated: in Mask mode an EMAIL detection is replaced by the first
\* character of its local part, mask characters for the rest of the local
\* part (however many), '@' and the unchanged domain, for a local part of
\* any length from one character up.
C28_first_character_kept ==
    (sanitized /\ sanitize_result[1].mode = "mask") =>
        \A j \in email_detections(sanitize_result[1].detections) :
            LET dets  == sanitize_result[1].detections
                value == dets[j].value
            IN  \E k \in 0..Len(value) :
                    shown(sanitize_result[1].sanitized_text, dets, j) =
                        <<local_part(value)[1]>> \o Stars(k) \o <<"@">> \o domain_part(value)

\* C28 amended: in Mask mode an EMAIL detection whose local part has two or
\* more characters is replaced by the first character of the local part,
\* exactly three mask characters, '@' and the unchanged domain; one whose
\* local part is a single character is replaced by one mask character, '@'
\* and the unchanged domain, so the character is not shown.
C28_three_stars_or_hidden ==
    (sanitized /\ sanitize_result[1].mode = "mask") =>
        \A j \in email_detections(sanitize_result[1].detections) :
            LET dets  == sanitize_result[1].detections
                value == dets[j].value
            IN  shown(sanitize_result[1].sanitized_text, dets, j) =
                    IF Len(local_part(value)) >= 2
                    THEN <<local_part(value)[1], "*", "*", "*", "@">> \o domain_part(value)
                    ELSE <<"*", "@">> \o domain_part(value)

\* the address with a one-character local part was masked
C28_witness ==
    /\ sanitized
    /\ sanitize_result[1].mode = "mask"
    /\ input = ShortEmail
    /\ email_detections(sanitize_result[1].detections) = {1}
    /\ sanitize_result[1].sanitized_text = <<"*", "@", "b", ".", "c", "o">>

passes(text, c) == _validate_detection(candidate_type(c), candidate_value(text, c))

span_inside(c2, c) ==
    /\ match_span(c[3])[1] <= match_span(c2[3])[1]
    /\ match_span(c[3])[2] >= match_span(c2[3])[2]

\* C29: a candidate that fails its validator claims no span: a candidate of
\* a later type lying inside the span of a rejected candidate is recorded if
\* it passes its own validator, unless a recorded span covers it.
C29_rejected_claims_nothing ==
    sanitized =>
        LET cands    == candidates(input)
            recorded == _detect_regex(input)
        IN  \A c \in cands : ~passes(input, c) =>
                \A c2 \in cands :
                    (/\ c2[1] > c[1]
                     /\ span_inside(c2, c)
                     /\ passes(input, c2)
                     /\ ~inside_earlier(c2, recorded))
                    => returned(c2, recorded)

\* 4111111111111112 was scanned: the card candidate over all of it failed
\* Luhn, and the PHONE candidate inside it was recorded and returned
C29_witness ==
    /\ sanitized
    /\ input = Fragments[8]
    /\ \E c \in candidates(input) :
           /\ candidate_type(c) = "CREDIT_CARD"
           /\ match_span(c[3]) = <<0, 16>>
           /\ ~passes(input, c)
    /\ Len(sanitize_result[1].detections) = 1
    /\ sanitize_result[1].detections[1].pii_type = "PHONE"
    /\ sanitize_result[1].detections[1].start = 1
    /\ sanitize_result[1].detections[1].end = 16

(***************************************************************************)
(* Properties of the risk engine, checked under SpecScore                  *)
(***************************************************************************)
scored == risk_score # NoScore

\* the sum of the confidences of dets, in hundredths
RECURSIVE confidence_hundredths(_)
confidence_hundredths(dets) ==
    IF Len(dets) = 0 THEN 0 ELSE dets[1].confidence + confidence_hundredths(Tail(dets))

\* the highest risk level among dets
highest_risk(dets) ==
    CHOOSE l \in {dets[i].risk_level : i \in 1..Len(dets)} :
        \A i \in 1..Len(dets) : risk_index(dets[i].risk_level) <= risk_index(l)

base_of(l) ==
    CASE l = "Low" -> 25 [] l = "Medium" -> 50 [] l = "High" -> 75 [] l = "Critical" -> 95

raw_of(dets) == Min(base_of(highest_risk(dets)) + Min((Len(dets) - 1) * 5, 20), 100)

clamp(x, lo, hi) == Max(lo, Min(x, hi))

\* p / q rounded to the nearest integer, a tie to the even one
round_div(p, q) ==
    LET f == p \div q
        r == p % q
    IN  IF 2 * r < q THEN f
        ELSE IF 2 * r > q THEN f + 1
        ELSE IF f % 2 = 0 THEN f ELSE f + 1

\* raw * avg_confidence rounded, for the detection list held
rounded_product ==
    round_div(raw_of(detections) * confidence_hundredths(detections), 100 * Len(detections))

\* C5 as stated: for a non-empty list the score is raw * avg_confidence
\* rounded to the nearest integer and clamped to [1, 100].
C5_rounded ==
    (scored /\ Len(detections) > 0) =>
        risk_score.score = clamp(rounded_product, 1, 100)

\* C5 amended: for a non-empty list the score is raw * avg_confidence
\* truncated to an integer t and clamped to [1, 100], where raw is
\* min(base + min((count-1)*5, 20), 100) and base is the score-map value of
\* the highest risk level; t is the integer part of the exact product, or
\* one less when the exact product is itself an integer that the
\* double-precision product falls short of.
C5_truncated ==
    (scored /\ Len(detections) > 0) =>
        LET p == raw_of(detections) * confidence_hundredths(detections)
            q == 100 * Len(detections)
        IN  \E t \in 0..100 :
                /\ t * q <= p
                /\ p <= (t + 1) * q
                /\ risk_score.score = clamp(t, 1, 100)

\* several detections scored, the penalty applied, and truncation and
\* rounding apart
C5_witness ==
    /\ scored
    /\ Len(detections) >= 2
    /\ risk_score.score = rounded_product - 1

\* C6 as stated: adding one Critical detection to a list never lowers the
\* score.
C6_monotone ==
    (/\ scored
     /\ prev_score # NoScore
     /\ Len(detections) > 0
     /\ detections[Len(detections)].risk_level = "Critical") =>
        risk_score.score >= prev_score.score

\* C8: should_block answers true exactly when the score is at least 80, so
\* 80 is blocked and 79 is not.
C8_block_iff_threshold ==
    (scored /\ block_decision # <<>>) =>
        /\ block_decision[1] = (risk_score.score >= 80)
        /\ (risk_score.score = 80 => block_decision[1] = TRUE)
        /\ (risk_score.score = 79 => block_decision[1] = FALSE)

\* a score of exactly 80 was blocked
C8_witness ==
    /\ scored
    /\ risk_score.score = 80
    /\ block_decision = <<TRUE>>

\* C9: every score returned lies in 0..100; it is 0 exactly for the empty
\* list, which gets level Low and no dominant type.
C9_range_and_zero ==
    scored =>
        /\ risk_score.score \in 0..100
        /\ (risk_score.score = 0 <=> detections = <<>>)
        /\ (detections = <<>> =>
               risk_score.level = "Low" /\ risk_score.dominant_type = "None")

\* the empty list was scored
C9_witness ==
    /\ scored
    /\ detections = <<>>
    /\ risk_score.score = 0

\* C10: for a non-empty list the level follows from the final score alone:
\* Critical from 95, High from 75 below 95, Medium from 50 below 75, Low
\* below 50.
C10_level_from_score ==
    (scored /\ Len(detections) > 0) =>
        /\ (risk_score.level = "Critical" <=> risk_score.score >= 95)
        /\ (risk_score.level = "High" <=> (75 <= risk_score.score /\ risk_score.score < 95))
        /\ (risk_score.level = "Medium" <=> (50 <= risk_score.score /\ risk_score.score < 75))
        /\ (risk_score.level = "Low" <=> risk_score.score < 50)

\* a list whose final score is exactly the Critical threshold
C10_witness ==
    /\ scored
    /\ Len(detections) > 0
    /\ risk_score.score = 95
    /\ risk_score.level = "Critical"

\* C12: the payload of to_alert holds no raw matched value: it is the payload
\* the same call returns for the list with its value fields blanked, and no
\* detail has a field for the value.
C12_alert_omits_values ==
    alert # <<>> =>
        /\ alert[1].payload =
               to_alert(risk_score, alert[1].source,
                        IF alert[1].with_details THEN detections ELSE <<>>)
        /\ \A ds \in {alert[1].payload.details[i] : i \in 1..Len(alert[1].payload.details)} :
               \A i \in 1..Len(ds) :
                   DOMAIN ds[i] = {"type", "label", "confidence", "risk_level", "category"}

\* an alert with details was built for several detections that carry raw
\* values
C12_witness ==
    /\ alert # <<>>
    /\ alert[1].with_details
    /\ Len(detections) >= 2
    /\ Len(alert[1].payload.details) = 1
    /\ Len(alert[1].payload.details[1]) = Len(detections)

(***************************************************************************)
(* Properties of sanitize under a concurrent update_mode, checked under    *)
(* SpecRace                                                                *)
(***************************************************************************)
\* the text a SanitizeResult r should carry for the mode it reports
text_for_reported_mode(r) ==
    IF r.mode = "detect_only" THEN r.original_text
    ELSE IF r.mode = "mask" THEN _apply_mask(r.original_text, r.detections)
    ELSE _apply_redact(r.original_text, r.detections)

\* C13 as stated: with update_mode running concurrently, every SanitizeResult
\* is consistent with the mode it reports: the original text for
\* detect-only, the masked text for mask, the redacted text for redact.
C13_result_matches_mode ==
    sanitize_result # <<>> =>
        sanitize_result[1].sanitized_text = text_for_reported_mode(sanitize_result[1])

(***************************************************************************)
(* Properties of _deduplicate, checked under SpecDedup                     *)
(***************************************************************************)
deduplicated == dedup_kept # <<>>

\* the places in dedup_input of the candidates that were kept
kept_places == {i \in 1..Len(dedup_input) :
                   \E k \in 1..Len(dedup_kept[1]) : dedup_kept[1][k] = dedup_input[i]}

overlapping(i, j) ==
    /\ dedup_input[i].start < dedup_input[j].end
    /\ dedup_input[i].end > dedup_input[j].start

\* candidate j is taken before candidate i: higher confidence, or the same
\* confidence and encountered earlier
taken_before(j, i) ==
    \/ dedup_input[j].confidence > dedup_input[i].confidence
    \/ (dedup_input[j].confidence = dedup_input[i].confidence /\ j < i)

\* the maximal cluster of overlapping candidates that holds the places in S
RECURSIVE cluster(_)
cluster(S) ==
    LET T == S \cup {j \in 1..Len(dedup_input) : \E i \in S : overlapping(i, j)}
    IN  IF T = S THEN S ELSE cluster(T)

\* candidate i is the one of highest confidence in its cluster, the first
\* encountered among equals
best_of_cluster(i) == \A j \in cluster({i}) \ {i} : taken_before(i, j)

\* C15 as stated: deduplication keeps exactly one candidate of each maximal
\* cluster of overlapping candidates, the one with the highest confidence,
\* the first encountered among equals.
C15_one_per_cluster ==
    deduplicated =>
        \A i \in 1..Len(dedup_input) :
            /\ Cardinality(cluster({i}) \cap kept_places) = 1
            /\ (i \in kept_places <=> best_of_cluster(i))

\* C15 amended: deduplication takes the candidates by descending confidence,
\* equals in the order encountered, and keeps a candidate exactly when it
\* overlaps no candidate kept before it; so the best of each maximal cluster
\* is kept, and another member of the cluster only if it overlaps no kept
\* one.  The kept list is in the order taken.
C15_greedy_by_confidence ==
    deduplicated =>
        /\ \A i \in 1..Len(dedup_input) :
               i \in kept_places <=>
                   ~\E j \in kept_places : taken_before(j, i) /\ overlapping(i, j)
        /\ \A i \in 1..Len(dedup_input) : best_of_cluster(i) => i \in kept_places
        /\ Len(dedup_kept[1]) = Cardinality(kept_places)
        /\ \A a, b \in 1..Len(dedup_kept[1]) :
               a < b => \E i, j \in kept_places :
                            /\ dedup_input[i] = dedup_kept[1][a]
                            /\ dedup_input[j] = dedup_kept[1][b]
                            /\ taken_before(i, j)

\* three candidates in one cluster, of which the two that do not overlap each
\* other were kept
C15_witness ==
    /\ deduplicated
    /\ Len(dedup_input) = 3
    /\ cluster({1}) = {1, 2, 3}
    /\ Cardinality(kept_places) = 2

\* C30: every candidate deduplication drops overlaps a kept detection whose
\* confidence is at least its own, so it could not be added back without an
\* overlap.
C30_dropped_overlaps_kept ==
    deduplicated =>
        \A i \in 1..Len(dedup_input) :
            i \notin kept_places =>
                \E j \in kept_places :
                    /\ overlapping(i, j)
                    /\ dedup_input[j].confidence >= dedup_input[i].confidence

\* a candidate was dropped for one of another type and the same confidence
\* that was encountered before it
C30_witness ==
    /\ deduplicated
    /\ \E i \in 1..Len(dedup_input) :
           /\ i \notin kept_places
           /\ \E j \in kept_places :
                  /\ overlapping(i, j)
                  /\ dedup_input[j].confidence = dedup_input[i].confidence
                  /\ dedup_input[j].pii_type # dedup_input[i].pii_type
                  /\ j < i

(***************************************************************************)
(* Properties of the lazy loader, checked under SpecLoader                 *)
(***************************************************************************)
\* C20: under any interleaving of concurrent first calls to
\* _get_presidio_analyzer the AnalyzerEngine is constructed at most once and
\* every caller that receives an analyzer receives the same one.
C20_constructed_once ==
    /\ analyzers_constructed <= 1
    /\ \A t1, t2 \in LoaderThreads :
           (/\ loader_returned[t1] # <<>> /\ loader_returned[t1][1] # <<>>
            /\ loader_returned[t2] # <<>> /\ loader_returned[t2][1] # <<>>)
           => loader_returned[t1] = loader_returned[t2]

\* C21: once a call to the loader has found the capability unavailable, the
\* caller of _detect_ner gets an empty list, and no call made later runs the
\* import and construction of the analyzer again.
C21_never_retried ==
    \A t \in LoaderThreads :
        /\ loader_returned[t] = <<<<>>>> =>
               _detect_ner_no_analyzer(loader_returned[t][1]) = <<<<>>>>
        /\ loader_after_failure[t] => loader_pc[t] # "import"

C23_fails_at_construction ==
    /\ unparseable # {} => (init_pc[1] # "returned" /\ detect_table = <<>>)
    /\ detect_table # <<>> => detect_table[1] = DOMAIN PATTERNS

\* the constructor raised after it had compiled some of the patterns, and
\* no detect call ran
C23_witness ==
    /\ unparseable # {}
    /\ init_pc[1] = "raised"
    /\ _compiled_patterns # {}
    /\ detect_table = <<>>

(***************************************************************************)
(* Properties of the validators, checked under SpecValidators              *)
(***************************************************************************)
\* C24: a string obtained from a 12-digit string that verhoeff_check
\* accepts by changing exactly one digit to a different digit is rejected
\* by verhoeff_check.
C24_single_digit_detected ==
    (check_prev # <<>> /\ check_result # <<>> /\ check_result[1].fn = "verhoeff_check")
        => ~check_result[1].ok

\* an accepted 12-digit string had one digit changed and was checked again
C24_witness ==
    /\ check_prev # <<>>
    /\ verhoeff_check(check_prev[1])
    /\ Len(strip_separators(checked)) = 12
    /\ Cardinality({i \in 1..Len(checked) : checked[i] # check_prev[1][i]}) = 1
    /\ check_result = <<[fn |-> "verhoeff_check", ok |-> FALSE]>>

\* the digit that counts for the k-th character from the right (k from 0):
\* every second one doubled, less 9 when the doubled value exceeds 9
luhn_weight(digits, k) ==
    LET d == int_of_digit(digits[Len(digits) - k])
    IN  IF k % 2 = 0 THEN d
        ELSE IF 2 * d > 9 THEN 2 * d - 9 ELSE 2 * d

RECURSIVE luhn_sum_upto(_, _)
luhn_sum_upto(digits, k) ==
    IF k < 0 THEN 0 ELSE luhn_weight(digits, k) + luhn_sum_upto(digits, k - 1)

luhn_valid(str) ==
    LET digits == SelectSeq(str, LAMBDA c : c \notin {" ", "\t", "\n", "\r", "\f", "-"})
    IN  /\ Len(digits) \in 13..19
        /\ \A i \in 1..Len(digits) : digits[i] \in Digit
        /\ luhn_sum_upto(digits, Len(digits) - 1) % 10 = 0

FourOnes ==
    <<"4", "1", "1", "1", "1", "1", "1", "1", "1", "1", "1", "1", "1", "1", "1", "1">>

\* C25: luhn_check(s) is true exactly when s without whitespace and hyphens
\* is 13 to 19 digits whose right-to-left sum, every second digit doubled
\* and reduced by 9 above 9, is divisible by 10; 4111111111111111 passes
\* and 4111111111111112 fails.
C25_luhn_iff ==
    /\ (check_result # <<>> /\ check_result[1].fn = "luhn_check")
           => (check_result[1].ok <=> luhn_valid(checked))
    /\ luhn_check(FourOnes)
    /\ ~luhn_check([FourOnes EXCEPT ![16] = "2"])

\* luhn_check accepted 4111111111111111
C25_witness ==
    /\ checked = FourOnes
    /\ check_result = <<[fn |-> "luhn_check", ok |-> TRUE]>>

====
